---- MODULE Spec2Model ----
(***************************************************************************)
(* Model of the kindergarten-puzzle geometry and constrained-motion core   *)
(* (src/puzzle-wasm/src/lib.rs): outline generation, board outlines, the   *)
(* validator, the constrained-motion solver and the UI handlers that call  *)
(* them.                                                                   *)
(*                                                                         *)
(* Numbers.  The program computes in f64 millimetres.  The model computes  *)
(* in fixed point: a length is an integer number of ticks, Tick of them to *)
(* the millimetre (0.05 mm each), an angle is an integer number of         *)
(* sixtieths of a degree, and sines are scaled by TrigScale.  Every        *)
(* comparison of products that could leave the 32-bit range is made with   *)
(* CmpProd, which is exact.                                                *)
(***************************************************************************)
EXTENDS Integers, Sequences, FiniteSets, TLC

(***************************************************************************)
(* Fixed-point arithmetic                                                  *)
(***************************************************************************)
Tick == 4 * 5            \* ticks per millimetre
TrigScale == 100 * 100   \* scale of SinFx / CosFx
FullTurn == 360 * 60     \* one turn, in sixtieths of a degree

Abs(x) == IF x < 0 THEN -x ELSE x
Min2(a, b) == IF a <= b THEN a ELSE b
Max2(a, b) == IF a >= b THEN a ELSE b
Sign(x) == IF x > 0 THEN 1 ELSE IF x < 0 THEN -1 ELSE 0

\* a / b rounded to the nearest integer (b > 0), halves away from zero
DivR(a, b) == IF a >= 0 THEN (2 * a + b) \div (2 * b) ELSE -((2 * (-a) + b) \div (2 * b))

\* a / b truncated toward zero (b > 0): an f64 quotient cut to the tick grid
DivT(a, b) == IF a >= 0 THEN a \div b ELSE -((-a) \div b)

\* sign of a*b - c*d for a, b, c, d >= 0, without forming the products
RECURSIVE CmpFrac(_, _, _, _)
CmpFrac(a, c, d, b) ==
    \* sign of a/c - d/b, with c > 0 and b > 0
    LET q1 == a \div c
        q2 == d \div b
        r1 == a % c
        r2 == d % b
    IN  IF q1 # q2 THEN (IF q1 > q2 THEN 1 ELSE -1)
        ELSE IF r1 = 0 /\ r2 = 0 THEN 0
        ELSE IF r1 = 0 THEN -1
        ELSE IF r2 = 0 THEN 1
        ELSE CmpFrac(b, r2, c, r1)

CmpProd(a, b, c, d) ==
    IF a = 0 \/ b = 0 THEN (IF c = 0 \/ d = 0 THEN 0 ELSE -1)
    ELSE IF c = 0 \/ d = 0 THEN 1
    ELSE CmpFrac(a, c, d, b)

\* 10000 * sin(k degrees), k = 0..90 (f64::sin_cos on whole degrees)
SinTab ==
    <<0, 175, 349, 523, 698, 872, 1045, 1219, 1392, 1564, 1736, 1908, 2079,
      2250, 2419, 2588, 2756, 2924, 3090, 3256, 3420, 3584, 3746, 3907, 4067,
      4226, 4384, 4540, 4695, 4848, 5000, 5150, 5299, 5446, 5592, 5736, 5878,
      6018, 6157, 6293, 6428, 6561, 6691, 6820, 6947, 7071, 7193, 7314, 7431,
      7547, 7660, 7771, 7880, 7986, 8090, 8192, 8290, 8387, 8480, 8572, 8660,
      8746, 8829, 8910, 8988, 9063, 9135, 9205, 9272, 9336, 9397, 9455, 9511,
      9563, 9613, 9659, 9703, 9744, 9781, 9816, 9848, 9877, 9903, 9925, 9945,
      9962, 9976, 9986, 9994, 9998, 10000>>

\* sine of m sixtieths of a degree, 0 <= m <= 90*60, by linear interpolation
SinQ1(m) ==
    LET k == m \div 60
        f == m % 60
    IN  IF f = 0 THEN SinTab[k + 1]
        ELSE SinTab[k + 1] + DivR((SinTab[k + 2] - SinTab[k + 1]) * f, 60)

\* sine and cosine of an angle in sixtieths of a degree, scaled by TrigScale
SinFx(ang) ==
    LET m == ang % FullTurn
    IN  IF m <= 5400 THEN SinQ1(m)
        ELSE IF m <= 10800 THEN SinQ1(10800 - m)
        ELSE IF m <= 16200 THEN -SinQ1(m - 10800)
        ELSE -SinQ1(FullTurn - m)

CosFx(ang) == SinFx(ang + 5400)

(***************************************************************************)
(* Option<T>: <<>> is None, <<v>> is Some(v)                               *)
(***************************************************************************)
None == <<>>
Some(v) == <<v>>
IsSome(o) == o # <<>>
UnwrapOr(o, dflt) == IF o = <<>> THEN dflt ELSE o[1]

\* a Point {x, y} is the pair <<x, y>>
Pt(x, y) == <<x, y>>

(***************************************************************************)
(* Program constants (lib.rs:23-29, 672)                                   *)
(***************************************************************************)
RING_WIDTH_MM == 8 * Tick
CIRCLE_R_MM == 15 * Tick
eps_mm == Tick \div 10

(***************************************************************************)
(* Outline generator (lib.rs:217-422, 481-503)                             *)
(*                                                                         *)
(* A Piece is a record of Options, as in the program:                      *)
(*   type_, at, rotation, anchor, flip, w, h, side, a, b, n, d, r,         *)
(*   base_bottom, base_top, height, base, offset_top, points,              *)
(*   ctr, geom (the __ctr / __geom caches) and label_idx (__label_idx).    *)
(* rotation is kept in sixtieths of a degree: one animation frame adds     *)
(* rot_vel / 60 degrees, so a frame adds rot_vel units.                    *)
(***************************************************************************)
Range(n) == 1..n

\* a variant of rotate_point that mirrors unless flip is set
rotate_point_mirrored(p, c, ang, flip) ==
    LET dx == IF flip THEN p[1] - c[1] ELSE c[1] - p[1]
        dy == p[2] - c[2]
    IN  Pt(c[1] + DivR(dx * CosFx(ang) - dy * SinFx(ang), TrigScale),
           c[2] + DivR(dx * SinFx(ang) + dy * CosFx(ang), TrigScale))

rotate_point(p, c, ang, flip) ==
    LET dx0 == p[1] - c[1]
        dy == p[2] - c[2]
        dx == IF flip THEN -dx0 ELSE dx0
        s == SinFx(ang)
        ca == CosFx(ang)
    IN  Pt(c[1] + DivR(dx * ca - dy * s, TrigScale),
           c[2] + DivR(dx * s + dy * ca, TrigScale))

piece_rotation(p) == UnwrapOr(p.rotation, 0)
piece_flip(p) == UnwrapOr(p.flip, FALSE)

\* the closure `apply` of piece_geom: rotate every point about ctr
ApplyPose(p, pts, ctr) ==
    << [i \in Range(Len(pts)) |-> rotate_point(pts[i], ctr, piece_rotation(p), piece_flip(p))],
       ctr >>

\* n = ceil(2*pi / dtheta), dtheta = 2*acos(1 - e/r), read as the least n with
\* cos(pi/n) >= 1 - e/r, clamped to 12..128
RECURSIVE CircleSegsFrom(_, _, _)
CircleSegsFrom(n, r, e) ==
    IF n >= 128 THEN 128
    ELSE IF (r - e) * TrigScale <= r * CosFx(DivR(10800, n)) THEN n
    ELSE CircleSegsFrom(n + 1, r, e)

tessellate_circle_polyline(center, r0, max_err_mm) ==
    LET r == Max2(r0, 0)
        e == Min2(Max2(max_err_mm, Tick \div 20), r)
        n == CircleSegsFrom(12, r, e)
    IN  IF r <= 0 THEN << center >>
        ELSE [i \in Range(n) |->
                LET a == DivR((i - 1) * FullTurn, n)
                IN  Pt(center[1] + DivR(r * CosFx(a), TrigScale),
                       center[2] + DivR(r * SinFx(a), TrigScale))]

\* radius of a circle piece: d/2, or r when d is absent (lib.rs:347, 656)
CircleRadius(p) ==
    IF IsSome(p.d) THEN DivR(p.d[1], 2) ELSE DivR(UnwrapOr(p.r, 0) * 2, 2)

RECURSIVE SumX(_, _)
SumX(pts, k) == IF k = 0 THEN 0 ELSE pts[k][1] + SumX(pts, k - 1)
RECURSIVE SumY(_, _)
SumY(pts, k) == IF k = 0 THEN 0 ELSE pts[k][2] + SumY(pts, k - 1)

\* regular_polygon with n = 1: the radius side / (2 * sin(pi)) is about
\* 4e15 sides in f64, far beyond every board; the model keeps it at 1000 sides
FarFactor == 10 * 100

piece_geom(p) ==
    LET anchor == UnwrapOr(p.anchor, "bottomleft")
        at == UnwrapOr(p.at, <<0, 0>>)
    IN  CASE p.type_ = "rect" ->
               LET w == UnwrapOr(p.w, 0)
                   h == UnwrapOr(p.h, 0)
                   bl == IF anchor = "center"
                         THEN Pt(at[1] - DivR(w, 2), at[2] - DivR(h, 2))
                         ELSE Pt(at[1], at[2])
                   tl == Pt(bl[1], bl[2] + h)
                   tr == Pt(bl[1] + w, bl[2] + h)
                   br == Pt(bl[1] + w, bl[2])
                   ctr == Pt(bl[1] + DivR(w, 2), bl[2] + DivR(h, 2))
               IN  ApplyPose(p, <<bl, br, tr, tl>>, ctr)
          [] p.type_ = "equilateral_triangle" ->
               LET sd == UnwrapOr(p.side, 0)
                   h == DivR(sd * 86603, 100000)      \* s * sqrt(3) / 2
                   bl == IF anchor = "center"
                         THEN Pt(at[1] - DivR(sd, 2), at[2] - DivR(h, 3))
                         ELSE Pt(at[1], at[2])
                   pb == Pt(bl[1] + sd, bl[2])
                   pc == Pt(bl[1] + DivR(sd, 2), bl[2] + h)
                   ctr == Pt(DivR(bl[1] + pb[1] + pc[1], 3), DivR(bl[2] + pb[2] + pc[2], 3))
               IN  ApplyPose(p, <<bl, pb, pc>>, ctr)
          [] p.type_ = "right_triangle" ->
               LET pa == Pt(at[1], at[2])
                   pb == Pt(at[1] + UnwrapOr(p.a, 0), at[2])
                   pc == Pt(at[1], at[2] + UnwrapOr(p.b, 0))
                   ctr == Pt(DivR(pa[1] + pb[1] + pc[1], 3), DivR(pa[2] + pb[2] + pc[2], 3))
               IN  ApplyPose(p, <<pa, pb, pc>>, ctr)
          [] p.type_ = "regular_polygon" ->
               LET n == UnwrapOr(p.n, 3)
                   sd == UnwrapOr(p.side, 0)
                   ctr == Pt(at[1], at[2])
                   \* the rotation, a number of degrees, is added to pi and the
                   \* sum is used as radians: one radian is 57.296 degrees
                   base_ang == DivR(piece_rotation(p) * 57296, 1000)
                               + (IF piece_flip(p) THEN FullTurn \div 2 ELSE 0)
               IN  IF n = 0 THEN << <<>>, ctr >>
                   ELSE LET r == IF n = 1 THEN sd * FarFactor
                                 ELSE DivR(sd * TrigScale, 2 * SinFx(DivR(FullTurn, 2 * n)))
                        IN  << [i \in Range(n) |->
                                  LET ang == base_ang + DivR((i - 1) * FullTurn, n)
                                  IN  Pt(ctr[1] + DivR(r * CosFx(ang), TrigScale),
                                         ctr[2] + DivR(r * SinFx(ang), TrigScale))],
                               ctr >>
          [] p.type_ = "circle" ->
               LET r == CircleRadius(p)
                   ctr == Pt(at[1], at[2])
               IN  << tessellate_circle_polyline(ctr, r, (3 * Tick) \div 10), ctr >>
          [] p.type_ = "isosceles_trapezoid" ->
               LET b0 == UnwrapOr(p.base_bottom, 0)
                   b1 == UnwrapOr(p.base_top, 0)
                   h == UnwrapOr(p.height, 0)
                   bl == Pt(at[1], at[2])
                   br == Pt(bl[1] + b0, bl[2])
                   tl == Pt(bl[1] + DivR(b0 - b1, 2), bl[2] + h)
                   tr == Pt(tl[1] + b1, tl[2])
                   ctr == Pt(DivR(bl[1] + br[1] + tr[1] + tl[1], 4),
                             DivR(bl[2] + br[2] + tr[2] + tl[2], 4))
               IN  ApplyPose(p, <<bl, br, tr, tl>>, ctr)
          [] p.type_ = "parallelogram" ->
               LET b == UnwrapOr(p.base, 0)
                   h == UnwrapOr(p.height, 0)
                   off == UnwrapOr(p.offset_top, 0)
                   bl == Pt(at[1], at[2])
                   br == Pt(bl[1] + b, bl[2])
                   tl == Pt(bl[1] + off, bl[2] + h)
                   tr == Pt(tl[1] + b, tl[2])
                   ctr == Pt(DivR(bl[1] + br[1] + tr[1] + tl[1], 4),
                             DivR(bl[2] + br[2] + tr[2] + tl[2], 4))
               IN  ApplyPose(p, <<bl, br, tr, tl>>, ctr)
          [] p.type_ = "polygon" ->
               LET pts == UnwrapOr(p.points, <<>>)
                   n == Max2(Len(pts), 1)
                   ctr == Pt(DivR(SumX(pts, Len(pts)), n), DivR(SumY(pts, Len(pts)), n))
               IN  ApplyPose(p, pts, ctr)
          [] OTHER -> << <<>>, Pt(0, 0) >>

(***************************************************************************)
(* Board outlines (lib.rs:1171-1220, 1289-1347)                            *)
(* A Board is a record of Options: type_, w, h, r, cut_corner, points.     *)
(***************************************************************************)
\* the i-th of n+1 samples of the quarter arc 0..90 degrees about (cx, cy)
ArcPoint(cx, cy, rad, i, n) ==
    LET a == DivR(5400 * i, n)
    IN  Pt(cx + DivR(rad * CosFx(a), TrigScale), cy + DivR(rad * SinFx(a), TrigScale))

\* a variant of board_to_geom that also knows a plain rectangle
board_to_geom_with_rect(board) ==
    CASE board.type_ = Some("rect_with_quarter_round_cut") ->
           LET w == UnwrapOr(board.w, 0)
               h == UnwrapOr(board.h, 0)
               r == UnwrapOr(board.r, 0)
               corner == UnwrapOr(board.cut_corner, "topright")
               n == 24
           IN  IF corner = "topright"
               THEN Some(<<Pt(0, 0), Pt(w, 0), Pt(w, h - r)>>
                         \o [i \in Range(n + 1) |-> ArcPoint(w - r, h - r, r, i - 1, n)]
                         \o <<Pt(0, h)>>)
               ELSE Some(<<Pt(0, 0), Pt(w, 0), Pt(w, h), Pt(0, h)>>)
      [] board.type_ = Some("rect") ->
           Some(<<Pt(0, 0), Pt(UnwrapOr(board.w, 0), 0),
                  Pt(UnwrapOr(board.w, 0), UnwrapOr(board.h, 0)), Pt(0, UnwrapOr(board.h, 0))>>)
      [] board.type_ = Some("polygon") ->
           LET pts == UnwrapOr(board.points, <<>>)
           IN  IF pts = <<>> THEN None ELSE Some(pts)
      [] OTHER -> None

board_to_geom(board) ==
    CASE board.type_ = Some("rect_with_quarter_round_cut") ->
           LET w == UnwrapOr(board.w, 0)
               h == UnwrapOr(board.h, 0)
               r == UnwrapOr(board.r, 0)
               corner == UnwrapOr(board.cut_corner, "topright")
               n == 24
           IN  IF corner = "topright"
               THEN Some(<<Pt(0, 0), Pt(w, 0), Pt(w, h - r)>>
                         \o [i \in Range(n + 1) |-> ArcPoint(w - r, h - r, r, i - 1, n)]
                         \o <<Pt(0, h)>>)
               ELSE Some(<<Pt(0, 0), Pt(w, 0), Pt(w, h), Pt(0, h)>>)
      [] board.type_ = Some("polygon") ->
           LET pts == UnwrapOr(board.points, <<>>)
           IN  IF pts = <<>> THEN None ELSE Some(pts)
      [] OTHER -> None

\* floor of the square root of n >= 0
RECURSIVE ISqrtIn(_, _, _)
ISqrtIn(n, lo, hi) ==
    IF lo >= hi THEN lo
    ELSE LET mid == (lo + hi + 1) \div 2
         IN  IF mid * mid <= n THEN ISqrtIn(n, mid, hi) ELSE ISqrtIn(n, lo, mid - 1)
ISqrt(n) == ISqrtIn(n, 0, 46340)

\* <<q, r>> with a*b = q*c + r and 0 <= r < c, for a, b >= 0 and c > 0,
\* by doubling, so that no intermediate product is formed
RECURSIVE MulDivQR(_, _, _)
MulDivQR(a, b, c) ==
    IF b = 0 THEN <<0, 0>>
    ELSE LET hf == MulDivQR(a, b \div 2, c)
             q3 == 2 * hf[1] + (b % 2) * (a \div c)
             r3 == 2 * hf[2] + (b % 2) * (a % c)
         IN  <<q3 + (r3 \div c), r3 % c>>

\* a*b/c rounded to the nearest integer, c # 0
MulDivR(a, b, c) ==
    LET qr == MulDivQR(Abs(a), Abs(b), Abs(c))
        m == qr[1] + (IF 2 * qr[2] >= Abs(c) THEN 1 ELSE 0)
    IN  Sign(a) * Sign(b) * Sign(c) * m

\* f64::atan2(y, x) in sixtieths of a degree, in (-180*60, 180*60]:
\* the first-quadrant angle is found by bisection on sin(m)*|x| - cos(m)*|y|
RECURSIVE ATanQ1(_, _, _, _)
ATanQ1(ay, ax, lo, hi) ==
    IF lo >= hi THEN lo
    ELSE LET mid == (lo + hi) \div 2
         IN  IF SinFx(mid) * ax >= CosFx(mid) * ay
             THEN ATanQ1(ay, ax, lo, mid)
             ELSE ATanQ1(ay, ax, mid + 1, hi)

ATan2Fx(y, x) ==
    LET q == ATanQ1(Abs(y), Abs(x), 0, 5400)
    IN  IF x = 0 /\ y = 0 THEN 0
        ELSE IF x >= 0 THEN (IF y >= 0 THEN q ELSE -q)
        ELSE (IF y >= 0 THEN 10800 - q ELSE -(10800 - q))

\* twice the signed area, in square ticks
RECURSIVE polygon_area_sum(_, _)
polygon_area_sum(poly, i) ==
    IF i = 0 THEN 0
    ELSE LET p == poly[i]
             q == poly[(i % Len(poly)) + 1]
         IN  (p[1] * q[2] - p[2] * q[1]) + polygon_area_sum(poly, i - 1)

polygon_area(poly) == IF Len(poly) < 3 THEN 0 ELSE polygon_area_sum(poly, Len(poly))

\* the intersection of the lines a1a2 and b1b2; the quotient of the source is
\* taken along a1a2, which is the same point and stays in range
line_intersection(a1, a2, b1, b2) ==
    LET den == (a1[1] - a2[1]) * (b1[2] - b2[2]) - (a1[2] - a2[2]) * (b1[1] - b2[1])
        tn == (a1[1] - b1[1]) * (b1[2] - b2[2]) - (a1[2] - b1[2]) * (b1[1] - b2[1])
    IN  IF den = 0 THEN None
        ELSE Some(Pt(a1[1] + MulDivR(tn, a2[1] - a1[1], den),
                     a1[2] + MulDivR(tn, a2[2] - a1[2], den)))

\* outward unit normal of edge i, scaled by TrigScale
EdgeNormal(inner, i, ccw) ==
    LET p == inner[i]
        q == inner[(i % Len(inner)) + 1]
        ex == q[1] - p[1]
        ey == q[2] - p[2]
        len4 == ISqrt(16 * (ex * ex + ey * ey))
    IN  IF len4 = 0 THEN <<0, 0>>
        ELSE IF ccw THEN << DivR(4 * ey * TrigScale, len4), -DivR(4 * ex * TrigScale, len4) >>
        ELSE << -DivR(4 * ey * TrigScale, len4), DivR(4 * ex * TrigScale, len4) >>

PrevIdx(i, n) == IF i = 1 THEN n ELSE i - 1

\* delta normalised to (-pi, pi], then turned to the outside sweep
ArcSweep(a0, a1, ccw) ==
    LET d0 == a1 - a0
        d1 == IF d0 <= -10800 THEN d0 + FullTurn ELSE IF d0 > 10800 THEN d0 - FullTurn ELSE d0
    IN  IF ccw THEN (IF d1 > 0 THEN d1 - FullTurn ELSE d1)
        ELSE (IF d1 < 0 THEN d1 + FullTurn ELSE d1)

\* a variant of the step count that never goes below two
ArcStepsAtLeastTwo(arc_samples) == Max2(arc_samples, 2)

\* let steps = arc_samples.max(1)
ArcSteps(arc_samples) == Max2(arc_samples, 1)

polygon_offset_rounded(inner, r0, arc_samples) ==
    LET n == Len(inner)
        r == Max2(r0, 0)
        ccw == polygon_area(inner) > 0
        normals == [i \in Range(n) |-> EdgeNormal(inner, i, ccw)]
        Off(pt, nm) == Pt(pt[1] + DivR(nm[1] * r, TrigScale), pt[2] + DivR(nm[2] * r, TrigScale))
        miters == [i \in Range(n) |->
                     LET n0 == normals[PrevIdx(i, n)]
                         n1 == normals[i]
                         b1 == Off(inner[i], n1)
                     IN  UnwrapOr(line_intersection(Off(inner[PrevIdx(i, n)], n0), Off(inner[i], n0),
                                                    b1, Off(inner[(i % n) + 1], n1)), b1)]
        steps == ArcSteps(arc_samples)
        Corner(i) ==
            LET c == inner[i]
                n0 == normals[PrevIdx(i, n)]
                n1 == normals[i]
                a0 == ATan2Fx(n0[2], n0[1])
                delta == ArcSweep(a0, ATan2Fx(n1[2], n1[1]), ccw)
            IN  [s \in Range(steps + 1) |->
                   LET ang == a0 + DivR(delta * (s - 1), steps)
                   IN  Pt(c[1] + DivR(r * CosFx(ang), TrigScale),
                          c[2] + DivR(r * SinFx(ang), TrigScale))]
                \o << miters[i] >>
    IN  IF n < 2 \/ r <= 0 THEN inner
        ELSE [k \in Range(n * (steps + 2)) |->
                Corner(((k - 1) \div (steps + 2)) + 1)[((k - 1) % (steps + 2)) + 1]]

\* polygon_offset_rounded for an f64 radius that need not be finite: r is
\* [kind |-> "finite", v |-> ticks], or of kind "nan", "inf" or "-inf".
\* r.max(0.0) is 0.0 for NaN and for -inf, and stays +inf for +inf, where
\* every product with r, and so every point returned, is infinite or NaN.
polygon_offset_rounded_f64(inner, r, arc_samples) ==
    IF r.kind = "inf" /\ Len(inner) >= 2
    THEN [len |-> Len(inner) * (ArcSteps(arc_samples) + 2), finite |-> FALSE, pts |-> <<>>]
    ELSE LET out == polygon_offset_rounded(inner, IF r.kind = "finite" THEN r.v ELSE 0,
                                           arc_samples)
         IN  [len |-> Len(out), finite |-> TRUE, pts |-> out]

board_outer_geom(board, ring) ==
    CASE board.type_ = Some("rect_with_quarter_round_cut") ->
           LET w == UnwrapOr(board.w, 0)
               h == UnwrapOr(board.h, 0)
               r == Max2(UnwrapOr(board.r, 0), 0)
               samples == 28
           IN  Some(<<Pt(-ring, -ring), Pt(w + ring, -ring), Pt(w + ring, h - r)>>
                    \o [i \in Range(samples + 1) |->
                          ArcPoint(w - r, h - r, r + ring, i - 1, samples)]
                    \o <<Pt(-ring, h + ring)>>)
      [] board.type_ = Some("polygon") ->
           LET inner == UnwrapOr(board.points, <<>>)
           IN  IF Len(inner) < 3 THEN None
               ELSE Some(polygon_offset_rounded(inner, ring, 8))
      [] OTHER -> None

(***************************************************************************)
(* Point and segment tests of the validator (lib.rs:1539-1596)             *)
(***************************************************************************)
\* x < (xj - xi) * (y - yi) / (yj - yi) + xi, cleared of the division
RayCrosses(pi, pj, p) ==
    /\ (pi[2] > p[2]) # (pj[2] > p[2])
    /\ LET dy == pj[2] - pi[2]
           lhs == (p[1] - pi[1]) * dy
           rhs == (pj[1] - pi[1]) * (p[2] - pi[2])
       IN  IF dy > 0 THEN lhs < rhs ELSE lhs > rhs

poly_contains_point(poly, p) ==
    LET n == Len(poly)
    IN  Cardinality({i \in Range(n) : RayCrosses(poly[i], poly[PrevIdx(i, n)], p)}) % 2 = 1

cross(a, b, c) == (b[1] - a[1]) * (c[2] - a[2]) - (b[2] - a[2]) * (c[1] - a[1])

segments_intersect(a1, a2, b1, b2) ==
    LET d1 == cross(a1, a2, b1)
        d2 == cross(a1, a2, b2)
        d3 == cross(b1, b2, a1)
        d4 == cross(b1, b2, a2)
    IN  /\ ((d1 > 0 /\ d2 < 0) \/ (d1 < 0 /\ d2 > 0))
        /\ ((d3 > 0 /\ d4 < 0) \/ (d3 < 0 /\ d4 > 0))

polygons_intersect(a, b) ==
    IF a = <<>> \/ b = <<>> THEN FALSE
    ELSE \/ \E i \in Range(Len(a)) : \E j \in Range(Len(b)) :
              segments_intersect(a[i], a[(i % Len(a)) + 1], b[j], b[(j % Len(b)) + 1])
         \/ poly_contains_point(a, b[1])
         \/ poly_contains_point(b, a[1])

(***************************************************************************)
(* Collision shape builder (lib.rs:675-701, 904-973)                       *)
(***************************************************************************)
LexLess(a, b) == a[1] < b[1] \/ (a[1] = b[1] /\ a[2] < b[2])

RECURSIVE ChainPop(_, _)
ChainPop(stack, p) ==
    IF Len(stack) >= 2 /\ cross(stack[Len(stack) - 1], stack[Len(stack)], p) <= 0
    THEN ChainPop(SubSeq(stack, 1, Len(stack) - 1), p)
    ELSE stack

RECURSIVE Chain(_, _, _)
Chain(pts, k, stack) ==
    IF k > Len(pts) THEN stack
    ELSE Chain(pts, k + 1, Append(ChainPop(stack, pts[k]), pts[k]))

Reverse(sq) == [i \in Range(Len(sq)) |-> sq[Len(sq) + 1 - i]]

convex_hull(pts) ==
    IF Len(pts) <= 3 THEN pts
    ELSE LET sorted == SortSeq(pts, LexLess)
             lower == Chain(sorted, 1, <<>>)
             upper == Chain(Reverse(sorted), 1, <<>>)
         IN  SubSeq(lower, 1, Len(lower) - 1) \o SubSeq(upper, 1, Len(upper) - 1)

\* earcut on an outline without holes.  A triangle is returned whole; a
\* convex quadrilateral is cut along the diagonal p0-p2 when it runs
\* counter-clockwise and along p1-p3 when it runs clockwise; a longer convex
\* outline is cut into a fan.  An outline of no area gives no triangle.
triangulate_polygon(points) ==
    LET n == Len(points)
        a2 == polygon_area(points)
    IN  IF n < 3 \/ a2 = 0 THEN <<>>
        ELSE IF n = 3 THEN << points >>
        ELSE IF n = 4 THEN
            IF a2 > 0
            THEN << <<points[3], points[4], points[1]>>, <<points[1], points[2], points[3]>> >>
            ELSE << <<points[2], points[1], points[4]>>, <<points[2], points[3], points[4]>> >>
        ELSE [k \in Range(n - 2) |-> <<points[1], points[k + 1], points[k + 2]>>]

\* SharedShape::convex_hull: the hull of a point set, None when the set
\* spans no area
SharedConvexHull(pts) ==
    IF Len(pts) < 3 \/ polygon_area(pts) = 0 THEN None ELSE Some(pts)

\* a shape is a ball of radius r or a compound of convex parts
make_shape(poly, is_circle, radius) ==
    IF is_circle THEN Some([ball |-> TRUE, r |-> radius, parts |-> <<>>])
    ELSE LET tris == triangulate_polygon(poly)
         IN  IF tris = <<>>
             THEN LET hs == SharedConvexHull(convex_hull(poly))
                  IN  IF hs = None THEN None
                      ELSE Some([ball |-> FALSE, r |-> 0, parts |-> << hs[1] >>])
             ELSE Some([ball |-> FALSE, r |-> 0, parts |-> tris])

(***************************************************************************)
(* parry2d::query::contact.  The library returns the signed distance of    *)
(* two shapes: the Euclidean distance when they are apart, minus the       *)
(* penetration depth when they meet, the least over the parts of a         *)
(* compound.  The program only compares that distance with -eps and +eps,  *)
(* so the model decides these two comparisons, exactly:                    *)
(*   - two convex polygons are deeper than t into each other iff on every  *)
(*     edge normal of either the projections overlap by more than t;       *)
(*   - they are within t of each other iff they meet or a vertex of one is *)
(*     within t of an edge of the other;                                   *)
(*   - a ball is at distance (distance of its centre) - r.                 *)
(***************************************************************************)
Dot(u, v) == u[1] * v[1] + u[2] * v[2]
Sub(u, v) == <<u[1] - v[1], u[2] - v[2]>>
Add(u, v) == <<u[1] + v[1], u[2] + v[2]>>

SetMax(S) == CHOOSE m \in S : \A x \in S : x <= m
SetMin(S) == CHOOSE m \in S : \A x \in S : x >= m
MaxProj(poly, n) == SetMax({Dot(n, poly[i]) : i \in Range(Len(poly))})
MinProj(poly, n) == SetMin({Dot(n, poly[i]) : i \in Range(Len(poly))})

\* the normals of the edges of a convex part; a segment (two vertices) also
\* gives its own direction, which separates it from what lies on its line
Axes(poly) ==
    ({<<poly[(i % Len(poly)) + 1][2] - poly[i][2], poly[i][1] - poly[(i % Len(poly)) + 1][1]>> :
         i \in Range(Len(poly))}
     \cup (IF Len(poly) = 2 THEN {Sub(poly[2], poly[1])} ELSE {})) \ {<<0, 0>>}

\* h / |n| > t, for t >= 0
HExceeds(h, n, t) == h > 0 /\ CmpProd(h, h, t * t, Dot(n, n)) > 0

DepthExceeds(P, Q, t) ==
    \A n \in Axes(P) \cup Axes(Q) :
        /\ HExceeds(MaxProj(P, n) - MinProj(Q, n), n, t)
        /\ HExceeds(MaxProj(Q, n) - MinProj(P, n), n, t)

ConvexMeet(P, Q) ==
    \A n \in Axes(P) \cup Axes(Q) :
        /\ MaxProj(P, n) - MinProj(Q, n) >= 0
        /\ MaxProj(Q, n) - MinProj(P, n) >= 0

\* sign of (distance from p to the segment ab) - t, for t >= 0
PointSegCmp(p, a, b, t) ==
    LET e == Sub(b, a)
        w == Sub(p, a)
        l2 == Dot(e, e)
        tt == Dot(w, e)
        c == cross(a, b, p)
    IN  IF l2 = 0 \/ tt <= 0 THEN Sign(Dot(w, w) - t * t)
        ELSE IF tt >= l2 THEN Sign(Dot(Sub(p, b), Sub(p, b)) - t * t)
        ELSE CmpProd(Abs(c), Abs(c), t * t, l2)

ConvexWithin(P, Q, t) ==
    \/ ConvexMeet(P, Q)
    \/ \E i \in Range(Len(P)) : \E j \in Range(Len(Q)) :
          \/ PointSegCmp(P[i], Q[j], Q[(j % Len(Q)) + 1], t) <= 0
          \/ PointSegCmp(Q[j], P[i], P[(i % Len(P)) + 1], t) <= 0

\* the centre c lies in the convex part P, its boundary included
PointInConvex(c, P) ==
    \/ \A i \in Range(Len(P)) : cross(P[i], P[(i % Len(P)) + 1], c) >= 0
    \/ \A i \in Range(Len(P)) : cross(P[i], P[(i % Len(P)) + 1], c) <= 0

\* (signed distance from c to the convex part P) < t, or <= t when incl
PointConvexBelow(c, P, t, incl) ==
    IF t > 0 \/ (t = 0 /\ incl)
    THEN \/ PointInConvex(c, P) /\ Len(P) >= 3
         \/ \E i \in Range(Len(P)) :
               LET k == PointSegCmp(c, P[i], P[(i % Len(P)) + 1], t)
               IN  IF incl THEN k <= 0 ELSE k < 0
    ELSE /\ PointInConvex(c, P) /\ Len(P) >= 3
         /\ \A i \in Range(Len(P)) :
               LET k == PointSegCmp(c, P[i], P[(i % Len(P)) + 1], -t)
               IN  IF incl THEN k >= 0 ELSE k > 0

\* the contact distance of two placed shapes is below -t (t >= 0);
\* ca and cb are the translations of the balls
ContactDeeper(sa, ca, sb, cb, t) ==
    IF sa.ball /\ sb.ball THEN
        LET lim == sa.r + sb.r - t
        IN  lim > 0 /\ Dot(Sub(ca, cb), Sub(ca, cb)) < lim * lim
    ELSE IF sa.ball THEN
        \E j \in Range(Len(sb.parts)) : PointConvexBelow(ca, sb.parts[j], sa.r - t, FALSE)
    ELSE IF sb.ball THEN
        \E i \in Range(Len(sa.parts)) : PointConvexBelow(cb, sa.parts[i], sb.r - t, FALSE)
    ELSE \E i \in Range(Len(sa.parts)) : \E j \in Range(Len(sb.parts)) :
            DepthExceeds(sa.parts[i], sb.parts[j], t)

\* the contact distance of two placed shapes is at most t (t >= 0)
ContactWithin(sa, ca, sb, cb, t) ==
    IF sa.ball /\ sb.ball THEN
        LET lim == sa.r + sb.r + t
        IN  Dot(Sub(ca, cb), Sub(ca, cb)) <= lim * lim
    ELSE IF sa.ball THEN
        \E j \in Range(Len(sb.parts)) : PointConvexBelow(ca, sb.parts[j], sa.r + t, TRUE)
    ELSE IF sb.ball THEN
        \E i \in Range(Len(sa.parts)) : PointConvexBelow(cb, sa.parts[i], sb.r + t, TRUE)
    ELSE \E i \in Range(Len(sa.parts)) : \E j \in Range(Len(sb.parts)) :
            ConvexWithin(sa.parts[i], sb.parts[j], t)

(***************************************************************************)
(* Validator (lib.rs:632-852).  The result is the list errors_en, one      *)
(* record per message: "Piece a overlaps piece b" or "Piece a is outside   *)
(* the border" (b = 0).                                                    *)
(***************************************************************************)
\* a variant of Geoms that labels a piece by its place in the array
GeomsByPlace(pieces) ==
    [i \in Range(Len(pieces)) |->
        LET p == pieces[i]
            gc == IF IsSome(p.geom) /\ IsSome(p.ctr) THEN <<p.geom[1], p.ctr[1]>> ELSE piece_geom(p)
        IN  [label_idx |-> i - 1,
             geom |-> gc[1],
             is_circle |-> p.type_ = "circle",
             radius |-> IF p.type_ = "circle" THEN CircleRadius(p) ELSE 0,
             ctr |-> gc[2]]]

Geoms(pieces) ==
    [i \in Range(Len(pieces)) |->
        LET p == pieces[i]
            gc == IF IsSome(p.geom) /\ IsSome(p.ctr) THEN <<p.geom[1], p.ctr[1]>> ELSE piece_geom(p)
        IN  [label_idx |-> UnwrapOr(p.label_idx, i - 1),
             geom |-> gc[1],
             is_circle |-> p.type_ = "circle",
             radius |-> IF p.type_ = "circle" THEN CircleRadius(p) ELSE 0,
             ctr |-> gc[2]]]

deep_overlap(a, ac, ra, ca, b, bc, rb, cb) ==
    LET sa == make_shape(a, ac, ra)
        sb == make_shape(b, bc, rb)
    IN  IF sa # None /\ sb # None
        THEN ContactDeeper(sa[1], ca, sb[1], cb, eps_mm)
        ELSE FALSE

\* the body of the pair loop: does the pair (ga, gb) get a message?
PairOverlaps(ga, gb) ==
    LET overlap == deep_overlap(ga.geom, ga.is_circle, ga.radius, ga.ctr,
                                gb.geom, gb.is_circle, gb.radius, gb.ctr)
        poly_cross == ~overlap /\ polygons_intersect(ga.geom, gb.geom)
    IN  overlap \/ poly_cross

\* a variant of PairSeq with every ordered pair (a, b), a # b
OrderedPairSeq(n) ==
    [k \in Range(n * (n - 1)) |->
        LET a == ((k - 1) \div (n - 1)) + 1
            r == ((k - 1) % (n - 1)) + 1
        IN  <<a, IF r >= a THEN r + 1 ELSE r>>]

\* the pairs (a, b), a < b, in the order of the two nested loops
PairSeq(n) ==
    LET Cnt == (n * (n - 1)) \div 2
        RECURSIVE RowOf(_, _)
        RowOf(k, a) == IF k <= n - a THEN <<a, a + k>> ELSE RowOf(k - (n - a), a + 1)
    IN  [k \in Range(Cnt) |-> RowOf(k, 1)]

OverlapErrors(geoms) ==
    LET Hit(pr) == PairOverlaps(geoms[pr[1]], geoms[pr[2]])
        hits == SelectSeq(PairSeq(Len(geoms)), Hit)
    IN  [k \in Range(Len(hits)) |->
            [kind |-> "overlaps",
             a |-> geoms[hits[k][1]].label_idx + 1,
             b |-> geoms[hits[k][2]].label_idx + 1]]

fully_inside(bg, poly) == \A i \in Range(Len(poly)) : poly_contains_point(bg, poly[i])

\* the least contact distance d from the piece to the segments of the inner
\* outline, kept as the interval it falls in: "inf" (no shape), "deep"
\* (d < -eps), "near" (-eps <= d <= eps) or "far" (d > eps)
min_dist_to_board(bg, poly, is_circle, radius, ctr) ==
    LET sp == make_shape(poly, is_circle, radius)
        n == Len(bg)
        Seg(j) == [ball |-> FALSE, r |-> 0, parts |-> << <<bg[j], bg[(j % n) + 1]>> >>]
    IN  IF sp = None THEN "inf"
        ELSE IF \E j \in Range(n) : ContactDeeper(sp[1], ctr, Seg(j), <<0, 0>>, eps_mm) THEN "deep"
        ELSE IF \E j \in Range(n) : ContactWithin(sp[1], ctr, Seg(j), <<0, 0>>, eps_mm) THEN "near"
        ELSE "far"

outside_outer(outer, pg) ==
    IF outer # None THEN ~(\A i \in Range(Len(pg)) : poly_contains_point(outer[1], pg[i]))
    ELSE FALSE

OutsideMsg(g) == [kind |-> "outside", a |-> g.label_idx + 1, b |-> 0]

\* a variant of the body of the board loop with three separate tests
BoardErrorsSeparately(g, bg, outer) ==
    LET d == min_dist_to_board(bg, g.geom, g.is_circle, g.radius, g.ctr)
    IN  (IF outside_outer(outer, g.geom) THEN << OutsideMsg(g) >> ELSE <<>>)
        \o (IF d = "deep" THEN << OutsideMsg(g) >> ELSE <<>>)
        \o (IF ~fully_inside(bg, g.geom) /\ ~(d \in {"deep", "near"})
            THEN << OutsideMsg(g) >> ELSE <<>>)

\* the body of the board loop for one piece
BoardErrorsOf(g, bg, outer) ==
    LET d == min_dist_to_board(bg, g.geom, g.is_circle, g.radius, g.ctr)
    IN  IF outside_outer(outer, g.geom) THEN << OutsideMsg(g) >>
        ELSE IF d = "deep" THEN << OutsideMsg(g) >>
        ELSE IF ~fully_inside(bg, g.geom)
             THEN (IF ~(d \in {"deep", "near"}) THEN << OutsideMsg(g) >> ELSE <<>>)
        ELSE <<>>

RECURSIVE BoardErrors(_, _, _, _)
BoardErrors(geoms, k, bg, outer) ==
    IF k > Len(geoms) THEN <<>>
    ELSE BoardErrorsOf(geoms[k], bg, outer) \o BoardErrors(geoms, k + 1, bg, outer)

ValidationErrors(data) ==
    LET board_geom == IF data.board = None THEN None ELSE board_to_geom(data.board[1])
        geoms == Geoms(data.pieces)
        outer == IF data.board = None THEN None ELSE board_outer_geom(data.board[1], RING_WIDTH_MM)
    IN  OverlapErrors(geoms)
        \o (IF board_geom # None THEN BoardErrors(geoms, 1, board_geom[1], outer) ELSE <<>>)

(***************************************************************************)
(* Constrained-motion solver (lib.rs:976-1114, 1154-1169)                  *)
(*                                                                         *)
(* A requested or allowed delta is [fine, x, y].  With fine = FALSE the    *)
(* components are ticks.  With fine = TRUE they are units of 1e-10 mm, far *)
(* below a tick, and not both zero: such deltas exist only to reach the    *)
(* 1e-9 mm threshold of rapier_allowed_delta.                              *)
(*                                                                         *)
(* A collider is [ball, r, c, poly]: a ball of radius r at c, or the       *)
(* convex polygon (or segment of a polyline) poly.                         *)
(*                                                                         *)
(* The physics step of the library is modelled as a sweep: the dynamic     *)
(* body, rotation locked, advances along its velocity until the shape it   *)
(* sweeps would enter a fixed collider, and stays where it is when it      *)
(* starts inside one.  Reached positions lie on the tick grid.             *)
(***************************************************************************)
ZeroDelta == [fine |-> FALSE, x |-> 0, y |-> 0]
TickDelta(dx, dy) == [fine |-> FALSE, x |-> dx, y |-> dy]

BallCollider(c, r) == [ball |-> TRUE, r |-> r, c |-> c, poly |-> <<>>]
PolyCollider(poly) == [ball |-> FALSE, r |-> 0, c |-> <<0, 0>>, poly |-> poly]

\* ColliderBuilder::polyline on the outline closed by its first vertex
PolylineColliders(outline) ==
    {PolyCollider(<<outline[i], outline[(i % Len(outline)) + 1]>>) : i \in Range(Len(outline))}

BoardColliders(data) ==
    IF data.board = None THEN {}
    ELSE LET inner == board_to_geom(data.board[1])
             outer == board_outer_geom(data.board[1], RING_WIDTH_MM)
         IN  (IF inner # None THEN PolylineColliders(inner[1]) ELSE {})
             \cup (IF outer # None THEN PolylineColliders(outer[1]) ELSE {})

\* the collider of one piece, as a set of zero or one collider
PieceCollider(pc) ==
    LET gc == piece_geom(pc)
    IN  IF pc.type_ = "circle" THEN {BallCollider(gc[2], CIRCLE_R_MM)}
        ELSE LET hs == SharedConvexHull(convex_hull(gc[1]))
             IN  IF hs = None THEN {} ELSE {PolyCollider(hs[1])}

Obstacles(data, moving_idx) ==
    BoardColliders(data)
    \cup UNION {PieceCollider(data.pieces[j]) : j \in Range(Len(data.pieces)) \ {moving_idx}}

MoveBy(poly, s) == [i \in Range(Len(poly)) |-> Add(poly[i], s)]

\* broad phase: the bounding boxes of what the mover sweeps and of a collider
Box(pts, pad) ==
    [x0 |-> SetMin({pts[i][1] : i \in Range(Len(pts))}) - pad,
     x1 |-> SetMax({pts[i][1] : i \in Range(Len(pts))}) + pad,
     y0 |-> SetMin({pts[i][2] : i \in Range(Len(pts))}) - pad,
     y1 |-> SetMax({pts[i][2] : i \in Range(Len(pts))}) + pad]

ColliderBox(o) == IF o.ball THEN Box(<<o.c>>, o.r) ELSE Box(o.poly, 0)

SweptBox(m, s) ==
    IF m.ball THEN Box(<<m.c, Add(m.c, s)>>, m.r) ELSE Box(m.poly \o MoveBy(m.poly, s), 0)

BoxesApart(p, q) == p.x1 < q.x0 \/ q.x1 < p.x0 \/ p.y1 < q.y0 \/ q.y1 < p.y0

\* the mover m, swept from its place along s, enters the collider o
Hit(m, o, s) ==
    /\ ~BoxesApart(SweptBox(m, s), ColliderBox(o))
    /\ IF m.ball THEN
           LET path == <<m.c, Add(m.c, s)>>
           IN  IF o.ball THEN PointSegCmp(o.c, path[1], path[2], m.r + o.r) < 0
               ELSE \/ ConvexMeet(path, o.poly)
                    \/ \E i \in Range(2) : \E j \in Range(Len(o.poly)) :
                          \/ PointSegCmp(path[i], o.poly[j], o.poly[(j % Len(o.poly)) + 1], m.r) < 0
                          \/ PointSegCmp(o.poly[j], path[1], path[2], m.r) < 0
       ELSE
           LET swept == convex_hull(m.poly \o MoveBy(m.poly, s))
           IN  IF o.ball THEN PointConvexBelow(o.c, swept, o.r, FALSE)
               ELSE DepthExceeds(swept, o.poly, 0)

AnyHit(m, obs, s) == \E o \in obs : Hit(m, o, s)

\* the k-th of steps + 1 grid positions from <<0, 0>> to <<dx, dy>>
PosAt(dx, dy, k, steps) == <<DivT(dx * k, steps), DivT(dy * k, steps)>>

\* the last position before the sweep enters a collider, by bisection:
\* position lo is free, position hi is not
RECURSIVE LastFree(_, _, _, _, _, _, _)
LastFree(m, obs, dx, dy, steps, lo, hi) ==
    IF hi - lo <= 1 THEN lo
    ELSE LET mid == (lo + hi) \div 2
         IN  IF AnyHit(m, obs, PosAt(dx, dy, mid, steps))
             THEN LastFree(m, obs, dx, dy, steps, lo, mid)
             ELSE LastFree(m, obs, dx, dy, steps, mid, hi)

\* PhysicsPipeline::step with dt = 1: the translation of the dynamic body
StepDisplacement(m, obs, delta) ==
    IF AnyHit(m, obs, <<0, 0>>) THEN ZeroDelta
    ELSE IF delta.fine THEN
        (IF AnyHit(m, obs, <<Sign(delta.x), Sign(delta.y)>>) THEN ZeroDelta ELSE delta)
    ELSE IF ~AnyHit(m, obs, <<delta.x, delta.y>>) THEN delta
    ELSE LET steps == Max2(Abs(delta.x), Abs(delta.y))
             k == LastFree(m, obs, delta.x, delta.y, steps, 0, steps)
             pos == PosAt(delta.x, delta.y, k, steps)
         IN  TickDelta(pos[1], pos[2])

\* the collider of the dynamic body, as a set of zero or one collider (the
\* code gives the hull relative to the centre and places the body there)
MovingCollider(p) ==
    LET gc == piece_geom(p)
    IN  IF p.type_ = "circle" THEN {BallCollider(gc[2], CIRCLE_R_MM)}
        ELSE LET hs == SharedConvexHull(convex_hull(gc[1]))
             IN  IF hs = None THEN {} ELSE {PolyCollider(hs[1])}

\* the displacement of the dynamic body after one step: a body without a
\* collider meets nothing
BodyDisplacement(p, obs, delta) ==
    IF MovingCollider(p) = {} THEN delta
    ELSE StepDisplacement(CHOOSE m \in MovingCollider(p) : TRUE, obs, delta)

\* a variant of locked_slide_delta_rapier without the early return for an
\* empty outline
locked_slide_any_outline(data, moving_idx, delta) ==
    BodyDisplacement(data.pieces[moving_idx], Obstacles(data, moving_idx), delta)

locked_slide_delta_rapier(data, moving_idx, delta) ==
    LET p == data.pieces[moving_idx]
        gc == piece_geom(p)
    IN  IF Len(gc[1]) < 1 THEN ZeroDelta
        ELSE BodyDisplacement(p, Obstacles(data, moving_idx), delta)

\* dx.abs() < 1e-9 && dy.abs() < 1e-9
IsTiny(delta) ==
    IF delta.fine THEN Abs(delta.x) < 10 /\ Abs(delta.y) < 10
    ELSE delta.x = 0 /\ delta.y = 0

\* a variant of rapier_allowed_delta that looks at enforce first
allowed_delta_enforce_first(data, moving_idx, delta, enforce) ==
    IF ~enforce THEN delta
    ELSE IF IsTiny(delta) THEN ZeroDelta
    ELSE locked_slide_delta_rapier(data, moving_idx, delta)

rapier_allowed_delta(data, moving_idx, delta, enforce) ==
    IF IsTiny(delta) THEN ZeroDelta
    ELSE IF ~enforce THEN delta
    ELSE locked_slide_delta_rapier(data, moving_idx, delta)

(***************************************************************************)
(* The application state (lib.rs:168-192) and its handlers                 *)
(*                                                                         *)
(* The view transform is the identity: a mouse position is given in        *)
(* geometry coordinates, in ticks.  An index into pieces counts from 1.    *)
(* frames counts the animation frames of a behaviour, to bound it.          *)
(*                                                                         *)
(* call and ret belong to the specifications of single functions further   *)
(* down: the arguments a function is applied to besides the state, and     *)
(* what it returned.  The handlers leave them alone.  label_map is the     *)
(* LABEL_MAP of blueprint-core (lib.rs:7-9), which only the blueprint      *)
(* functions touch.  trapped holds once a handler has panicked: the wasm   *)
(* call traps with the State still mutably borrowed, so every later        *)
(* handler panics at borrow_mut and the state changes no more.             *)
(***************************************************************************)
\* an empty HashMap<String, String>
NoLabels == <<>>

VARIABLES data, initial_data, dragging_idx, drag_off, rot_vel, slow_mode,
          rot_speed_fast, rot_speed_slow, restrict_mode, shift_down, frames,
          call, ret, label_map, trapped

vars == <<data, initial_data, dragging_idx, drag_off, rot_vel, slow_mode,
          rot_speed_fast, rot_speed_slow, restrict_mode, shift_down, frames,
          call, ret, label_map, trapped>>

\* how many animation frames with a rotation a behaviour of the model takes
MaxFrames == 1

ROT_SPEED_FAST == 180
ROT_SPEED_SLOW == 15

NoPiece ==
    [type_ |-> "", at |-> None, rotation |-> None, anchor |-> None, flip |-> None,
     w |-> None, h |-> None, side |-> None, a |-> None, b |-> None, n |-> None,
     d |-> None, r |-> None, base_bottom |-> None, base_top |-> None, height |-> None,
     base |-> None, offset_top |-> None, points |-> None,
     geom |-> None, ctr |-> None, label_idx |-> None]

RectPiece(x, y, w, h) ==
    [NoPiece EXCEPT !.type_ = "rect", !.at = Some(<<x, y>>), !.w = Some(w), !.h = Some(h)]

CirclePiece(x, y, d) ==
    [NoPiece EXCEPT !.type_ = "circle", !.at = Some(<<x, y>>), !.d = Some(d)]

NoBoard ==
    [type_ |-> None, w |-> None, h |-> None, r |-> None, cut_corner |-> None, points |-> None]

CutBoard(w, h, r, corner) ==
    [NoBoard EXCEPT !.type_ = Some("rect_with_quarter_round_cut"),
                    !.w = Some(w), !.h = Some(h), !.r = Some(r), !.cut_corner = corner]

assign_piece_colors(p) ==
    [p EXCEPT !.pieces = [i \in Range(Len(p.pieces)) |->
                             [p.pieces[i] EXCEPT !.label_idx = Some(i - 1)]]]

\* draw: refresh the cached outline and centre of every piece
draw(d) ==
    [d EXCEPT !.pieces = [i \in Range(Len(d.pieces)) |->
                             LET gc == piece_geom(d.pieces[i])
                             IN  [d.pieces[i] EXCEPT !.geom = Some(gc[1]), !.ctr = Some(gc[2])]]]

\* the puzzles the application is started with: on a board, a piece out of
\* reach of the mouse points and, flush on its left and above it in the
\* drawing order, a piece under them
StartPuzzles ==
    { [board |-> Some(CutBoard(60 * Tick, 40 * Tick, 0, Some("none"))),
       pieces |-> << RectPiece(30 * Tick, 10 * Tick, 10 * Tick, 20 * Tick),
                     RectPiece(10 * Tick, 10 * Tick, 20 * Tick, 20 * Tick) >>] }

\* where the mouse can be
MousePts == { <<15 * Tick, 15 * Tick>>, <<25 * Tick, 15 * Tick>> }

Init ==
    /\ \E p \in StartPuzzles :
          /\ initial_data = assign_piece_colors(p)
          /\ data = draw(assign_piece_colors(p))
    /\ dragging_idx = None
    /\ drag_off = <<0, 0>>
    /\ rot_vel = 0
    /\ slow_mode = FALSE
    /\ rot_speed_fast = ROT_SPEED_FAST
    /\ rot_speed_slow = ROT_SPEED_SLOW
    /\ restrict_mode = FALSE
    /\ shift_down = FALSE
    /\ frames = 0
    /\ label_map = NoLabels
    /\ trapped = FALSE
    /\ call = <<>>
    /\ ret = None

\* a variant of the removal that leaves the picked piece in its place
RemoveNone(sq, i) == sq

RemoveAt(sq, i) == SubSeq(sq, 1, i - 1) \o SubSeq(sq, i + 1, Len(sq))

\* the pieces under the cursor, by their cached outlines
UnderCursor(pt) ==
    {i \in Range(Len(data.pieces)) :
        /\ IsSome(data.pieces[i].geom)
        /\ poly_contains_point(data.pieces[i].geom[1], pt)}

\* mousedown over a piece: the topmost piece under the cursor is picked and
\* brought to the top (over no piece the handler changes nothing)
MouseDown(pt) ==
    /\ ~trapped
    /\ UnderCursor(pt) # {}
    /\ LET i == SetMax(UnderCursor(pt))
           ctr == UnwrapOr(data.pieces[i].ctr, <<0, 0>>)
       IN  /\ drag_off' = Sub(pt, ctr)
           /\ data' = [data EXCEPT !.pieces = Append(RemoveAt(data.pieces, i), data.pieces[i])]
           /\ dragging_idx' = Some(Len(data.pieces))
    /\ UNCHANGED <<trapped, label_map, call, ret, initial_data, rot_vel, slow_mode, rot_speed_fast, rot_speed_slow,
                   restrict_mode, shift_down, frames>>

\* the piece p moved by the allowed delta
Translate(p, dx, dy) ==
    IF IsSome(p.at) THEN [p EXCEPT !.at = Some(<<p.at[1][1] + dx, p.at[1][2] + dy>>)]
    ELSE IF IsSome(p.points)
         THEN [p EXCEPT !.points = Some(MoveBy(p.points[1], <<dx, dy>>))]
    ELSE [p EXCEPT !.at = Some(<<dx, dy>>)]

\* the mousemove handler (lib.rs:1871-1903), but for call
MouseMoved(raw) ==
    /\ ~trapped
    /\ IsSome(dragging_idx)
    /\ IF dragging_idx[1] > Len(data.pieces)
       THEN \* pieces[idx] is out of bounds: the handler panics
            /\ trapped' = TRUE
            /\ data' = data
       ELSE /\ trapped' = FALSE
            /\ LET idx == dragging_idx[1]
                   gp == Sub(raw, drag_off)
                   p == data.pieces[idx]
                   constraints_active == restrict_mode \/ shift_down
               IN  IF IsSome(p.ctr)
                   THEN LET want == Sub(gp, p.ctr[1])
                        IN  \E al \in {rapier_allowed_delta(data, idx, TickDelta(want[1], want[2]),
                                                             constraints_active)} :
                                \E moved \in {[data EXCEPT !.pieces[idx] = Translate(p, al.x, al.y)]} :
                                    data' = draw(moved)
                   ELSE data' = draw(data)
    /\ UNCHANGED <<label_map, ret, initial_data, dragging_idx, drag_off, rot_vel, slow_mode, rot_speed_fast,
                   rot_speed_slow, restrict_mode, shift_down, frames>>

MouseMove(raw) == MouseMoved(raw) /\ UNCHANGED call

MouseUp ==
    /\ ~trapped
    /\ IsSome(dragging_idx)
    /\ dragging_idx' = None
    /\ UNCHANGED <<trapped, label_map, call, ret, data, initial_data, drag_off, rot_vel, slow_mode, rot_speed_fast,
                   rot_speed_slow, restrict_mode, shift_down, frames>>

CurrentSpeed == IF slow_mode THEN rot_speed_slow ELSE rot_speed_fast

\* keydown "q" / "e": start the continuous rotation
KeyDownRotate(key) ==
    /\ ~trapped
    /\ data.pieces # <<>>
    /\ rot_vel' = IF key = "q" THEN CurrentSpeed ELSE -CurrentSpeed
    /\ UNCHANGED <<trapped, label_map, call, ret, data, initial_data, dragging_idx, drag_off, slow_mode, rot_speed_fast,
                   rot_speed_slow, restrict_mode, shift_down, frames>>

\* keydown "s": toggle slow mode and rescale a running rotation
KeyDownSlow ==
    /\ ~trapped
    /\ data.pieces # <<>>
    /\ slow_mode' = ~slow_mode
    /\ LET new_speed == IF ~slow_mode THEN rot_speed_slow ELSE rot_speed_fast
       IN  rot_vel' = IF rot_vel # 0 THEN (IF rot_vel > 0 THEN new_speed ELSE -new_speed)
                      ELSE rot_vel
    /\ UNCHANGED <<trapped, label_map, call, ret, data, initial_data, dragging_idx, drag_off, rot_speed_fast, rot_speed_slow,
                   restrict_mode, shift_down, frames>>

\* keydown "f": flip the last piece
KeyDownFlip ==
    /\ ~trapped
    /\ data.pieces # <<>>
    /\ LET idx == Len(data.pieces)
           flipped == [data EXCEPT !.pieces[idx].flip = Some(~piece_flip(data.pieces[idx]))]
       IN  data' = draw(flipped)
    /\ UNCHANGED <<trapped, label_map, call, ret, initial_data, dragging_idx, drag_off, rot_vel, slow_mode, rot_speed_fast,
                   rot_speed_slow, restrict_mode, shift_down, frames>>

\* keydown "l": toggle the restriction
KeyDownLock ==
    /\ ~trapped
    /\ data.pieces # <<>>
    /\ restrict_mode' = ~restrict_mode
    /\ UNCHANGED <<trapped, label_map, call, ret, data, initial_data, dragging_idx, drag_off, rot_vel, slow_mode,
                   rot_speed_fast, rot_speed_slow, shift_down, frames>>

\* keydown "shift"
KeyDownShift ==
    /\ ~trapped
    /\ data.pieces # <<>>
    /\ ~shift_down
    /\ shift_down' = TRUE
    /\ UNCHANGED <<trapped, label_map, call, ret, data, initial_data, dragging_idx, drag_off, rot_vel, slow_mode,
                   rot_speed_fast, rot_speed_slow, restrict_mode, frames>>

\* keyup "q" / "e"
KeyUpRotate ==
    /\ ~trapped
    /\ rot_vel # 0
    /\ rot_vel' = 0
    /\ UNCHANGED <<trapped, label_map, call, ret, data, initial_data, dragging_idx, drag_off, slow_mode, rot_speed_fast,
                   rot_speed_slow, restrict_mode, shift_down, frames>>

\* keyup "shift"
KeyUpShift ==
    /\ ~trapped
    /\ shift_down
    /\ shift_down' = FALSE
    /\ UNCHANGED <<trapped, label_map, call, ret, data, initial_data, dragging_idx, drag_off, rot_vel, slow_mode,
                   rot_speed_fast, rot_speed_slow, restrict_mode, frames>>

\* one animation frame while a rotation runs (start_animation): the dragged
\* piece, or else the last one, turns by rot_vel / 60 degrees
RotFrame ==
    /\ ~trapped
    /\ rot_vel # 0
    /\ frames < MaxFrames
    /\ LET idx == UnwrapOr(dragging_idx, Len(data.pieces))
       IN  IF data.pieces # <<>> /\ idx > Len(data.pieces)
           THEN \* pieces[idx] is out of bounds: the frame panics
                /\ trapped' = TRUE
                /\ data' = data
           ELSE /\ trapped' = FALSE
                /\ LET turned ==
                           IF data.pieces # <<>>
                           THEN [data EXCEPT !.pieces[idx].rotation =
                                                 Some(piece_rotation(data.pieces[idx]) + rot_vel)]
                           ELSE data
                   IN  data' = draw(turned)
    /\ frames' = frames + 1
    /\ UNCHANGED <<label_map, call, ret, initial_data, dragging_idx, drag_off, rot_vel, slow_mode, rot_speed_fast,
                   rot_speed_slow, restrict_mode, shift_down>>

\* a variant of the reset button that leaves the modes as they are
ResetKeepingModes ==
    /\ ~trapped
    /\ data' = draw(initial_data)
    /\ dragging_idx' = None
    /\ rot_vel' = 0
    /\ UNCHANGED <<trapped, label_map, call, ret, initial_data, drag_off, rot_speed_fast, rot_speed_slow,
                   frames, slow_mode, restrict_mode, shift_down>>

\* the reset button
Reset ==
    /\ ~trapped
    /\ data' = draw(initial_data)
    /\ dragging_idx' = None
    /\ rot_vel' = 0
    /\ slow_mode' = FALSE
    /\ restrict_mode' = FALSE
    /\ shift_down' = FALSE
    /\ UNCHANGED <<trapped, label_map, call, ret, initial_data, drag_off, rot_speed_fast, rot_speed_slow, frames>>

Next ==
    \/ \E pt \in MousePts : MouseDown(pt)
    \/ \E raw \in MousePts : MouseMove(raw)
    \/ MouseUp
    \/ \E key \in {"q", "e"} : KeyDownRotate(key)
    \/ KeyDownSlow
    \/ KeyDownFlip
    \/ KeyDownLock
    \/ KeyDownShift
    \/ KeyUpRotate
    \/ KeyUpShift
    \/ RotFrame
    \/ Reset

Spec == Init /\ [][Next]_vars

\* SharedShape::convex_hull (lib.rs:687) hands the points to the hull routine
\* of parry2d, which asserts that there are two distinct points among them
ConvexHullPanics(pts) == Cardinality({pts[k] : k \in DOMAIN pts}) < 2

\* make_shape reaches that assertion (lib.rs:683-688): the outline is not a
\* circle's and has no triangle, and its hull has less than two distinct points
MakeShapePanics(poly, is_circle) ==
    /\ ~is_circle
    /\ triangulate_polygon(poly) = <<>>
    /\ ConvexHullPanics(convex_hull(poly))

\* the validation aborts: a shape is made of every outline when there are
\* two pieces (lib.rs:733-743) or a board (lib.rs:803-806)
ValidationPanics(d) ==
    LET geoms == Geoms(d.pieces)
        board_geom == IF d.board = None THEN None ELSE board_to_geom(d.board[1])
    IN  /\ Len(geoms) >= 2 \/ board_geom # None
        /\ \E i \in DOMAIN geoms : MakeShapePanics(geoms[i].geom, geoms[i].is_circle)

\* what the panel is left with when the validation aborts
PanicMsg == [kind |-> "panic", a |-> 0, b |-> 0]

\* update_validation_dom: the content of the validation panel.  Every handler
\* that changes an outline ends with draw, which ends with this update, so
\* the panel shows the messages for the current layout.
update_validation_dom(d) == IF ValidationPanics(d) THEN << PanicMsg >> ELSE ValidationErrors(d)

(***************************************************************************)
(* rapier_allowed_delta (lib.rs:1154-1169) on its own: the state, the      *)
(* moving index, the requested delta and enforce are drawn at the start    *)
(* and the function is applied to them once.                               *)
(***************************************************************************)
\* the requested deltas reach MaxReach steps of StepLen along each axis
MaxReach == 2
StepLen == (3 * Tick) \div 2

BlobPiece(x, y) == [NoPiece EXCEPT !.type_ = "hexagon", !.at = Some(<<x, y>>)]

\* layouts in which the last piece is flush against the first piece or
\* against the right edge of the board
DeltaPuzzles ==
    { [board |-> Some(CutBoard(60 * Tick, 40 * Tick, 0, Some("none"))),
       pieces |-> << RectPiece(30 * Tick, 10 * Tick, 10 * Tick, 20 * Tick),
                     RectPiece(10 * Tick, 10 * Tick, 20 * Tick, 20 * Tick) >>],
      [board |-> Some(CutBoard(60 * Tick, 40 * Tick, 0, Some("none"))),
       pieces |-> << RectPiece(5 * Tick, 5 * Tick, 10 * Tick, 10 * Tick),
                     RectPiece(40 * Tick, 10 * Tick, 20 * Tick, 20 * Tick) >>],
      [board |-> None,
       pieces |-> << RectPiece(30 * Tick, 10 * Tick, 10 * Tick, 20 * Tick),
                     CirclePiece(10 * Tick, 20 * Tick, 40 * Tick) >>],
      [board |-> None,
       pieces |-> << RectPiece(30 * Tick, 10 * Tick, 10 * Tick, 20 * Tick),
                     CirclePiece(15 * Tick, 20 * Tick, 30 * Tick) >>],
      [board |-> None,
       pieces |-> << CirclePiece(50 * Tick, 20 * Tick, 40 * Tick),
                     RectPiece(10 * Tick, 10 * Tick, 20 * Tick, 20 * Tick) >>],
      [board |-> None,
       pieces |-> << RectPiece(30 * Tick, 10 * Tick, 10 * Tick, 20 * Tick),
                     BlobPiece(10 * Tick, 10 * Tick) >>] }

\* requested deltas: on the tick grid, and below the grid on either side of
\* the 1e-9 mm threshold
RequestedDeltas ==
    {TickDelta(i * StepLen, j * StepLen) : i, j \in -MaxReach .. MaxReach}
    \cup ({[fine |-> TRUE, x |-> x, y |-> y] : x, y \in {-50, -5, 0, 5, 50}}
          \ {[fine |-> TRUE, x |-> 0, y |-> 0]})

InitDelta ==
    /\ \E p \in DeltaPuzzles :
          /\ initial_data = assign_piece_colors(p)
          /\ data = draw(assign_piece_colors(p))
    /\ call \in [moving_idx : {1, 2}, delta : RequestedDeltas, enforce : BOOLEAN]
    /\ ret = None
    /\ dragging_idx = None
    /\ drag_off = <<0, 0>>
    /\ rot_vel = 0
    /\ slow_mode = FALSE
    /\ rot_speed_fast = ROT_SPEED_FAST
    /\ rot_speed_slow = ROT_SPEED_SLOW
    /\ restrict_mode = FALSE
    /\ shift_down = FALSE
    /\ frames = 0
    /\ label_map = NoLabels
    /\ trapped = FALSE

AllowedDelta ==
    /\ ret = None
    /\ ret' = Some(rapier_allowed_delta(data, call.moving_idx, call.delta, call.enforce))
    /\ UNCHANGED <<trapped, label_map, data, initial_data, dragging_idx, drag_off, rot_vel, slow_mode,
                   rot_speed_fast, rot_speed_slow, restrict_mode, shift_down, frames, call>>

NextDelta == AllowedDelta

SpecDelta == InitDelta /\ [][NextDelta]_vars

\* C2, as the code has it: with enforce = false rapier_allowed_delta returns
\* the requested delta unchanged, except that a request with both components
\* below 1e-9 in magnitude returns (0, 0).
C2_UnenforcedDeltaUnlessTiny ==
    (ret # None /\ ~call.enforce)
        => ret[1] = IF IsTiny(call.delta) THEN ZeroDelta ELSE call.delta

\* a non-zero request below the threshold came back as (0, 0) without enforce
C2_TinyRequestReturnedZero ==
    /\ ret # None
    /\ ~call.enforce
    /\ call.delta.fine
    /\ IsTiny(call.delta)
    /\ ret[1] = ZeroDelta

\* C2, as stated: with enforce = false rapier_allowed_delta returns exactly
\* the requested delta, however small or large it is.
C2_UnenforcedDeltaUnchanged ==
    (ret # None /\ ~call.enforce) => ret[1] = call.delta

\* the extent of the true shape of a piece (its outline, or the disc of a
\* circle) along the axis direction u, and the coordinate of its centre
MaxAlong(g, u) ==
    IF g.is_circle THEN Dot(g.ctr, u) + g.radius
    ELSE SetMax({Dot(g.geom[k], u) : k \in Range(Len(g.geom))})

MinAlong(g, u) == -MaxAlong(g, <<-u[1], -u[2]>>)

Across(u) == <<-u[2], u[1]>>

\* piece g is flush against piece h, which lies straight ahead along u
FlushAgainstPiece(g, h, u) ==
    /\ g.geom # <<>> /\ h.geom # <<>>
    /\ MaxAlong(g, u) = MinAlong(h, u)
    /\ MinAlong(h, Across(u)) < Dot(g.ctr, Across(u))
    /\ Dot(g.ctr, Across(u)) < MaxAlong(h, Across(u))

\* piece g, inside the inner outline bg, is flush against its edge ahead
FlushAgainstBoard(g, bg, u) ==
    /\ g.geom # <<>>
    /\ fully_inside(bg, <<g.ctr>>)
    /\ MaxAlong(g, u) = SetMax({Dot(bg[k], u) : k \in Range(Len(bg))})

\* the moving piece is flush against an obstacle and the request points
\* straight into it
RequestIntoObstacle ==
    \E u \in {<<1, 0>>, <<-1, 0>>, <<0, 1>>, <<0, -1>>} :
        /\ ~call.delta.fine
        /\ \E k \in 1 .. (MaxReach + 1) * StepLen : call.delta = TickDelta(k * u[1], k * u[2])
        /\ LET geoms == Geoms(data.pieces)
               g == geoms[call.moving_idx]
               bg == IF data.board = None THEN None ELSE board_to_geom(data.board[1])
           IN  \/ \E j \in Range(Len(geoms)) \ {call.moving_idx} :
                     FlushAgainstPiece(g, geoms[j], u)
               \/ bg # None /\ FlushAgainstBoard(g, bg[1], u)

\* delta a is strictly shorter than the request b, a tick delta
Shorter(a, b) == ~a.fine /\ a.x * a.x + a.y * a.y < b.x * b.x + b.y * b.y

\* C3: with enforce = true, a piece flush against an obstacle and a request
\* straight into the obstacle, the returned delta is strictly shorter than
\* the request.
C3_BlockedWhenFlush ==
    (ret # None /\ call.enforce /\ RequestIntoObstacle) => Shorter(ret[1], call.delta)

\* C9: the disc the solver uses for a circle piece, as an obstacle and as the
\* moving body, has the centre of the piece and the radius d / 2 of its
\* outline and of the ball of the validator.
C9_SolverDiscIsTheCircle ==
    \A i \in Range(Len(data.pieces)) :
        LET p == data.pieces[i]
            disc == BallCollider(piece_geom(p)[2], CircleRadius(p))
        IN  p.type_ = "circle" => PieceCollider(p) = {disc} /\ MovingCollider(p) = {disc}

EmptyOutline(p) == piece_geom(p)[1] = <<>>

NonZero(delta) == delta.x # 0 \/ delta.y # 0

MaxGap == 1

RectBoard(w, h) == [NoBoard EXCEPT !.type_ = Some("rect"), !.w = Some(w), !.h = Some(h)]

ValidateBoards ==
    { None,
      Some(RectBoard(200 * Tick, 150 * Tick)),
      Some([NoBoard EXCEPT !.w = Some(200 * Tick), !.h = Some(150 * Tick)]),
      Some(CutBoard(200 * Tick, 150 * Tick, 20 * Tick, None)) }

\* one square across the left edge of the board, inside it, or across its
\* right edge; two 10 mm squares side by side; two 10 mm squares within
\* 0.15 mm of touching; a circle next to two squares;
\* four squares in and around the ring on the left of the board
ValidatePieces ==
    { << RectPiece(x, 10 * Tick, sz * Tick, sz * Tick) >> :
          x \in {-9 * Tick, -7 * Tick, -5 * Tick, -1, 10 * Tick, 190 * Tick}, sz \in {5, 10, 50} }
    \cup { << RectPiece(10 * Tick, 10 * Tick, 10 * Tick, 10 * Tick),
              RectPiece((10 + dx) * Tick, (10 + dy) * Tick, 10 * Tick, 10 * Tick) >> :
          dx \in (10 - MaxGap) .. (10 + MaxGap),
          dy \in {0} \cup ((10 - MaxGap) .. (10 + MaxGap)) }
    \cup { << RectPiece(10 * Tick, 10 * Tick, 10 * Tick, 10 * Tick),
              RectPiece(20 * Tick + dx, 10 * Tick + dy, 10 * Tick, 10 * Tick) >> :
          dx \in {-3, -2, -1, 0, 1}, dy \in {0, 5 * Tick} }
    \cup { << RectPiece(10 * Tick, 10 * Tick, 10 * Tick, 10 * Tick),
              RectPiece(19 * Tick, 10 * Tick, 10 * Tick, 10 * Tick),
              CirclePiece(x, 25 * Tick, 20 * Tick) >> :
          x \in {-5 * Tick, 30 * Tick, 60 * Tick} }
    \cup { << RectPiece(-9 * Tick, 10 * Tick, 10 * Tick, 10 * Tick),
              RectPiece(-5 * Tick, 30 * Tick, 10 * Tick, 10 * Tick),
              RectPiece(-7 * Tick, 50 * Tick, 5 * Tick, 5 * Tick),
              RectPiece(-1, 70 * Tick, 10 * Tick, 10 * Tick) >> }

InitValidate ==
    /\ \E b \in ValidateBoards : \E ps \in ValidatePieces :
          /\ initial_data = assign_piece_colors([board |-> b, pieces |-> ps])
          /\ data = assign_piece_colors([board |-> b, pieces |-> ps])
    /\ call = <<>>
    /\ ret = None
    /\ dragging_idx = None
    /\ drag_off = <<0, 0>>
    /\ rot_vel = 0
    /\ slow_mode = FALSE
    /\ rot_speed_fast = ROT_SPEED_FAST
    /\ rot_speed_slow = ROT_SPEED_SLOW
    /\ restrict_mode = FALSE
    /\ shift_down = FALSE
    /\ frames = 0
    /\ label_map = NoLabels
    /\ trapped = FALSE

\* draw: the outlines are refreshed and the layout is validated
DrawAndValidate ==
    /\ data' = draw(data)
    /\ ret' = Some(update_validation_dom(draw(data)))
    /\ UNCHANGED <<trapped, label_map, initial_data, dragging_idx, drag_off, rot_vel, slow_mode, rot_speed_fast,
                   rot_speed_slow, restrict_mode, shift_down, frames, call>>

\* after draw, a mousedown on the centre of any piece brings the piece on
\* top there to the end of the array
NextValidate ==
    \/ DrawAndValidate
    \/ \E i \in Range(Len(data.pieces)) :
          /\ IsSome(data.pieces[i].ctr)
          /\ MouseDown(data.pieces[i].ctr[1])

SpecValidate == InitValidate /\ [][NextValidate]_vars

IsOverlap(e) == e.kind = "overlaps"
IsOutside(e) == e.kind = "outside"

\* the verdict in stable labels: the unordered pairs that overlap and the
\* labels that are outside the border
VerdictOf(errs) ==
    [overlaps |-> {{errs[k].a, errs[k].b} : k \in {j \in DOMAIN errs : IsOverlap(errs[j])}},
     outside |-> {errs[k].a : k \in {j \in DOMAIN errs : IsOutside(errs[j])}}]

LabelBefore(p, q) == p.label_idx[1] < q.label_idx[1]

\* the layout with the array in the order of the labels
ByLabel(d) == [d EXCEPT !.pieces = SortSeq(d.pieces, LabelBefore)]

\* C4: the verdict of validation in stable labels is the same for every order
\* of the pieces array, so mousedown's move to the end does not change it:
\* whatever order the array was validated in and has now, the verdict on the
\* panel is the verdict of the array in label order.
C4_VerdictIgnoresOrder ==
    ret # None => VerdictOf(ret[1]) = VerdictOf(update_validation_dom(ByLabel(data)))

\* a reordered array was validated: its messages differ from those of the
\* label order, and there is an overlap and a piece outside
C4_ReorderedLayoutValidated ==
    /\ ret # None
    /\ data.pieces # ByLabel(data).pieces
    /\ ret[1] = update_validation_dom(data)
    /\ ret[1] # update_validation_dom(ByLabel(data))
    /\ VerdictOf(ret[1]).overlaps # {}
    /\ VerdictOf(ret[1]).outside # {}

\* the layout is two axis-aligned 10 mm squares
TwoSquares(d) ==
    /\ Len(d.pieces) = 2
    /\ \A i \in {1, 2} :
          /\ d.pieces[i].type_ = "rect"
          /\ d.pieces[i].w = Some(10 * Tick) /\ d.pieces[i].h = Some(10 * Tick)
          /\ piece_rotation(d.pieces[i]) = 0

\* the gap between the two squares along the axis that separates them most;
\* negative when they overlap
SquareGap(d) ==
    Max2(Abs(d.pieces[2].at[1][1] - d.pieces[1].at[1][1]),
         Abs(d.pieces[2].at[1][2] - d.pieces[1].at[1][2])) - 10 * Tick

\* C5: two axis-aligned 10x10 rects get no overlap message at a gap of 1 mm
\* and exactly one overlap message when they overlap by 1 mm.
C5_GapAndOverlapOfOneMm ==
    (ret # None /\ TwoSquares(data)) =>
        /\ SquareGap(data) = Tick => SelectSeq(ret[1], IsOverlap) = <<>>
        /\ SquareGap(data) = -Tick => Len(SelectSeq(ret[1], IsOverlap)) = 1

\* two squares overlapping by 1 mm were validated, in the order 2, 1
C5_OverlappingSquaresValidated ==
    /\ ret # None
    /\ TwoSquares(data)
    /\ SquareGap(data) = -Tick
    /\ data.pieces[1].label_idx = Some(1)
    /\ ret[1] = update_validation_dom(data)
    /\ Len(SelectSeq(ret[1], IsOverlap)) = 1

\* the corners <<min x, min y, max x, max y>> of an outline
BoundsOf(poly) ==
    <<SetMin({poly[k][1] : k \in DOMAIN poly}), SetMin({poly[k][2] : k \in DOMAIN poly}),
      SetMax({poly[k][1] : k \in DOMAIN poly}), SetMax({poly[k][2] : k \in DOMAIN poly})>>

\* the layout is one 50 mm square, bottom-left anchored and unrotated, at
\* (x, 10) on the board of kind rect, 200 by 150
RectBoardScenario(x) ==
    /\ data.board = Some(RectBoard(200 * Tick, 150 * Tick))
    /\ Len(data.pieces) = 1
    /\ data.pieces[1].type_ = "rect"
    /\ data.pieces[1].w = Some(50 * Tick) /\ data.pieces[1].h = Some(50 * Tick)
    /\ data.pieces[1].anchor = None /\ piece_rotation(data.pieces[1]) = 0
    /\ data.pieces[1].at = Some(<<x, 10 * Tick>>)

\* C6: on the rect board 200x150, the 50x50 piece at (10,10) has the bounds
\* (10,10)-(60,60) and no outside message; at (190,10) it has the outside
\* message.
C6_RectBoardContainment ==
    ret # None =>
        /\ RectBoardScenario(10 * Tick) =>
              /\ BoundsOf(data.pieces[1].geom[1]) = <<10 * Tick, 10 * Tick, 60 * Tick, 60 * Tick>>
              /\ VerdictOf(ret[1]).outside = {}
        /\ RectBoardScenario(190 * Tick) => VerdictOf(ret[1]).outside = {1}

Unrecognized(b) ==
    b = None \/ b[1].type_ \notin {Some("rect_with_quarter_round_cut"), Some("polygon")}

\* C7: without a board, or with a board of unrecognized type, there is no
\* board outline, the solver gets no board obstacle and validation reports no
\* piece outside the border, wherever the pieces are.
C7_NoBoardNoContainment ==
    Unrecognized(data.board) =>
        /\ data.board # None => board_to_geom(data.board[1]) = None
        /\ BoardColliders(data) = {}
        /\ ret # None => VerdictOf(ret[1]).outside = {}

\* a piece reaching left of x = 0 was validated on a board of unrecognized type
C7_PieceBeyondUnknownBoard ==
    /\ ret # None
    /\ data.board # None
    /\ Unrecognized(data.board)
    /\ \E i \in DOMAIN data.pieces : BoundsOf(data.pieces[i].geom[1])[1] < 0
    /\ VerdictOf(ret[1]).outside = {}

HasRing(d) ==
    /\ d.board # None
    /\ board_to_geom(d.board[1]) # None
    /\ board_outer_geom(d.board[1], RING_WIDTH_MM) # None

InnerOf(d) == board_to_geom(d.board[1])[1]
OuterOf(d) == board_outer_geom(d.board[1], RING_WIDTH_MM)[1]

\* (a) some vertex of the piece is not inside the outer outline
BeyondOuter(g, d) == \E k \in DOMAIN g.geom : ~poly_contains_point(OuterOf(d), g.geom[k])

DistClass(g, d) == min_dist_to_board(InnerOf(d), g.geom, g.is_circle, g.radius, g.ctr)

\* (b) d is finite and d < -0.10
DeepInRing(g, d) == DistClass(g, d) = "deep"

\* (c) inside the outer outline, not fully inside the inner one, and not
\* (d finite and d <= 0.10)
RestsOnRing(g, d) ==
    /\ ~BeyondOuter(g, d)
    /\ ~fully_inside(InnerOf(d), g.geom)
    /\ DistClass(g, d) \notin {"deep", "near"}

OutsideCount(errs, label) ==
    Cardinality({k \in DOMAIN errs : IsOutside(errs[k]) /\ errs[k].a = label})

\* C8: on a board with an inner and an outer outline a piece gets the outside
\* message exactly when (a), (b) or (c) holds, and never more than once.
C8_ThreeConditionRule ==
    (ret # None /\ HasRing(data)) =>
        \A i \in DOMAIN data.pieces :
            LET g == Geoms(<<data.pieces[i]>>)[1]
            IN  OutsideCount(ret[1], g.label_idx + 1) =
                    IF BeyondOuter(g, data) \/ DeepInRing(g, data) \/ RestsOnRing(g, data)
                    THEN 1 ELSE 0

\* one pass met a piece beyond the outer outline and deep across the inner
\* one, a piece deep across the inner one only, a piece resting on the ring,
\* and a piece across the inner outline within the tolerance
C8_AllCasesInOnePass ==
    /\ ret # None
    /\ HasRing(data)
    /\ LET gs == Geoms(data.pieces)
       IN  \E a, b, c, n \in DOMAIN gs :
              /\ BeyondOuter(gs[a], data) /\ DeepInRing(gs[a], data)
              /\ ~BeyondOuter(gs[b], data) /\ DeepInRing(gs[b], data)
              /\ RestsOnRing(gs[c], data)
              /\ ~fully_inside(InnerOf(data), gs[n].geom) /\ DistClass(gs[n], data) = "near"
              /\ VerdictOf(ret[1]).outside =
                     {gs[a].label_idx + 1, gs[b].label_idx + 1, gs[c].label_idx + 1}

\* C1: while lock mode is on or Shift is held, no operation takes a layout
\* without a violation to a layout with an overlap or a piece outside the
\* border.
C1_ConstraintsKeepLayoutValid ==
    [][((restrict_mode \/ shift_down) /\ (restrict_mode' \/ shift_down')
            /\ update_validation_dom(data) = <<>>)
        => update_validation_dom(data') = <<>>]_vars

(***************************************************************************)
(* The piece list under the user interface (C11).                          *)
(***************************************************************************)

\* what a handler never writes: the label and the shape parameters of a piece
ShapeOf(p) ==
    [p EXCEPT !.at = None, !.points = None, !.rotation = None, !.flip = None,
              !.geom = None, !.ctr = None]

MaxCalls == 3

\* a piece between the left edge of the board and another piece, and a
\* circle beside a rect
CallPuzzles ==
    { [board |-> Some(CutBoard(60 * Tick, 40 * Tick, 0, Some("none"))),
       pieces |-> << RectPiece(30 * Tick, 10 * Tick, 10 * Tick, 20 * Tick),
                     RectPiece(10 * Tick, 10 * Tick, 20 * Tick, 20 * Tick) >>],
      [board |-> None,
       pieces |-> << RectPiece(40 * Tick, 10 * Tick, 10 * Tick, 20 * Tick),
                     CirclePiece(15 * Tick, 20 * Tick, 30 * Tick) >>] }

CallArgs ==
    { [moving_idx |-> i, delta |-> a.delta, enforce |-> a.enforce] :
        i \in {1, 2},
        a \in { [delta |-> TickDelta(-12 * Tick, 0), enforce |-> TRUE],
                [delta |-> TickDelta(12 * Tick, 0), enforce |-> TRUE],
                [delta |-> TickDelta(-12 * Tick, 0), enforce |-> FALSE] } }

InitCalls ==
    /\ \E p \in CallPuzzles :
          /\ initial_data = assign_piece_colors(p)
          /\ data = draw(assign_piece_colors(p))
    /\ call = <<>>
    /\ ret = <<>>
    /\ dragging_idx = None
    /\ drag_off = <<0, 0>>
    /\ rot_vel = 0
    /\ slow_mode = FALSE
    /\ rot_speed_fast = ROT_SPEED_FAST
    /\ rot_speed_slow = ROT_SPEED_SLOW
    /\ restrict_mode = FALSE
    /\ shift_down = FALSE
    /\ frames = 0
    /\ label_map = NoLabels
    /\ trapped = FALSE

\* a variant of the call in which the world outlives the call: the body
\* moved by the call before is still in it, where that call left it
SolverCallKeepingWorld(c) ==
    /\ Len(call) < MaxCalls
    /\ call' = Append(call, c)
    /\ LET kept ==
               IF Len(call) = 0 THEN {}
               ELSE LET end == ret[Len(ret)]
                        s == IF end.fine THEN <<0, 0>> ELSE <<end.x, end.y>>
                    IN  {IF o.ball THEN [o EXCEPT !.c = Add(o.c, s)]
                         ELSE [o EXCEPT !.poly = MoveBy(o.poly, s)] :
                             o \in PieceCollider(data.pieces[call[Len(call)].moving_idx])}
           out == IF IsTiny(c.delta) THEN ZeroDelta
                  ELSE IF ~c.enforce THEN c.delta
                  ELSE BodyDisplacement(data.pieces[c.moving_idx],
                                        Obstacles(data, c.moving_idx) \cup kept, c.delta)
       IN  ret' = Append(ret, out)
    /\ UNCHANGED <<trapped, label_map, data, initial_data, dragging_idx, drag_off, rot_vel, slow_mode,
                   rot_speed_fast, rot_speed_slow, restrict_mode, shift_down, frames>>

\* one call: the state is borrowed immutably
SolverCall(c) ==
    /\ Len(call) < MaxCalls
    /\ call' = Append(call, c)
    /\ ret' = Append(ret, rapier_allowed_delta(data, c.moving_idx, c.delta, c.enforce))
    /\ UNCHANGED <<trapped, label_map, data, initial_data, dragging_idx, drag_off, rot_vel, slow_mode,
                   rot_speed_fast, rot_speed_slow, restrict_mode, shift_down, frames>>

NextCalls == \E c \in CallArgs : SolverCall(c)

SpecCalls == InitCalls /\ [][NextCalls]_vars

blueprint_piece_geom(p) ==
    LET at == UnwrapOr(p.at, <<0, 0>>)
    IN  CASE p.type_ = "regular_polygon" ->
               LET n == UnwrapOr(p.n, 3)
                   sd == UnwrapOr(p.side, 0)
                   ctr == Pt(at[1], at[2])
                   base_ang == piece_rotation(p) + (IF piece_flip(p) THEN FullTurn \div 2 ELSE 0)
               IN  IF n = 0 THEN << <<>>, ctr >>
                   ELSE LET r == IF n = 1 THEN sd * FarFactor
                                 ELSE DivR(sd * TrigScale, 2 * SinFx(DivR(FullTurn, 2 * n)))
                        IN  << [i \in Range(n) |->
                                  LET ang == base_ang + DivR((i - 1) * FullTurn, n)
                                  IN  Pt(ctr[1] + DivR(r * CosFx(ang), TrigScale),
                                         ctr[2] + DivR(r * SinFx(ang), TrigScale))],
                               ctr >>
          [] p.type_ = "circle" ->
               LET r == CircleRadius(p)
                   ctr == Pt(at[1], at[2])
                   k == 32
               IN  << [i \in Range(k) |->
                         LET a == DivR((i - 1) * FullTurn, k)
                         IN  Pt(ctr[1] + DivR(r * CosFx(a), TrigScale),
                                ctr[2] + DivR(r * SinFx(a), TrigScale))],
                      ctr >>
          [] p.type_ = "polygon" ->
               LET pts == UnwrapOr(p.points, <<>>)
                   n == Max2(Len(pts), 1)
               IN  << pts, Pt(DivR(SumX(pts, Len(pts)), n), DivR(SumY(pts, Len(pts)), n)) >>
          [] OTHER -> piece_geom(p)

\* the unit vector along p, scaled by TrigScale
normalize(p) ==
    LET len4 == ISqrt(16 * (p[1] * p[1] + p[2] * p[2]))
    IN  IF len4 = 0 THEN <<0, 0>>
        ELSE << DivR(4 * p[1] * TrigScale, len4), DivR(4 * p[2] * TrigScale, len4) >>

\* the centre of the rounding arc of a corner between prev and next
RoundingCenter(prev, corner, next, radius) ==
    LET v1 == normalize(Sub(prev, corner))
        v2 == normalize(Sub(next, corner))
    IN  Pt(corner[1] + DivR((v1[1] + v2[1]) * radius, TrigScale),
           corner[2] + DivR((v1[2] + v2[2]) * radius, TrigScale))

\* a variant of the step that emits the corner of a marker as a plain point
PolyStepKeepingCorner(out, poly, i) == << Pt(poly[i][1], poly[i][2]) >>

\* what one turn of the loop of poly_to_points pushes for poly[i]
PolyStep(out, poly, i) ==
    IF Len(poly[i]) = 2 THEN << Pt(poly[i][1], poly[i][2]) >>
    ELSE IF out = <<>> \/ i + 1 > Len(poly) THEN <<>>
    ELSE LET prev == out[Len(out)]
             next_xy == Pt(poly[i + 1][1], poly[i + 1][2])
             corner == Pt(poly[i][1], poly[i][2])
             radius == poly[i][3]
             v1 == normalize(Sub(prev, corner))
             v2 == normalize(Sub(next_xy, corner))
             start == Pt(corner[1] + DivR(v1[1] * radius, TrigScale),
                         corner[2] + DivR(v1[2] * radius, TrigScale))
             end == Pt(corner[1] + DivR(v2[1] * radius, TrigScale),
                       corner[2] + DivR(v2[2] * radius, TrigScale))
             center == RoundingCenter(prev, corner, next_xy, radius)
             start_ang == ATan2Fx(start[2] - center[2], start[1] - center[1])
             end_ang == ATan2Fx(end[2] - center[2], end[1] - center[1])
             steps == 24
         IN  << start >>
             \o [j \in Range(steps) |->
                   LET ang == start_ang + DivR((end_ang - start_ang) * j, steps)
                   IN  Pt(center[1] + DivR(radius * CosFx(ang), TrigScale),
                          center[2] + DivR(radius * SinFx(ang), TrigScale))]

RECURSIVE poly_to_points_from(_, _, _)
poly_to_points_from(poly, i, out) ==
    IF i > Len(poly) THEN out
    ELSE poly_to_points_from(poly, i + 1, out \o PolyStep(out, poly, i))

poly_to_points(poly) == poly_to_points_from(poly, 1, <<>>)

(***************************************************************************)
(* The outline functions on their own (C13 to C20): call holds the name of *)
(* the function and its arguments, ret what it returned.                   *)
(***************************************************************************)
NoPuzzle == [board |-> None, pieces |-> <<>>]

\* rectangle boards with a quarter-round corner, and the ring widths 0 and
\* RING_WIDTH_MM
BoardCalls ==
    { [fn |-> "board_outer_geom", board |-> CutBoard(w, 30 * Tick, r, corner), ring |-> ring] :
        w \in {40 * Tick, 60 * Tick}, r \in {0, 10 * Tick},
        corner \in {None, Some("topright"), Some("none"), Some("bottomleft")},
        ring \in {0, RING_WIDTH_MM} }

PolygonBoard(pts) == [NoBoard EXCEPT !.type_ = Some("polygon"), !.points = Some(pts)]

\* outlines of 0 to 4 points, counter-clockwise and clockwise
Outlines ==
    { <<>>, << Pt(0, 0) >>, << Pt(0, 0), Pt(20 * Tick, 0) >>,
      << Pt(0, 0), Pt(20 * Tick, 0), Pt(0, 20 * Tick) >>,
      << Pt(0, 0), Pt(20 * Tick, 0), Pt(20 * Tick, 10 * Tick), Pt(0, 10 * Tick) >>,
      << Pt(0, 0), Pt(0, 10 * Tick), Pt(20 * Tick, 10 * Tick), Pt(20 * Tick, 0) >> }

PolygonBoardCalls ==
    { [fn |-> "board_outer_geom", board |-> PolygonBoard(pts), ring |-> ring] :
        pts \in Outlines, ring \in {0, RING_WIDTH_MM} }

MaxArcSamples == 3

F64(v) == [kind |-> "finite", v |-> v]

Radii ==
    { F64(0), F64(-5 * Tick), F64(RING_WIDTH_MM),
      [kind |-> "nan", v |-> 0], [kind |-> "inf", v |-> 0], [kind |-> "-inf", v |-> 0] }

OffsetCalls ==
    { [fn |-> "polygon_offset_rounded", inner |-> pts, r |-> r, arc_samples |-> k] :
        pts \in Outlines, r \in Radii, k \in 0 .. MaxArcSamples }

\* polygon points and rounding markers, in lists of up to MaxPolyLen
MaxPolyLen == 3

PolyElems ==
    { << 20 * Tick, 20 * Tick >>, << 20 * Tick, -20 * Tick >>, << -20 * Tick, 20 * Tick >>,
      << 0, 0, 5 * Tick >>, << 40 * Tick, 0, 5 * Tick >> }

RECURSIVE SeqsUpTo(_, _)
SeqsUpTo(S, n) ==
    IF n = 0 THEN { <<>> }
    ELSE SeqsUpTo(S, n - 1)
         \cup { Append(sq, e) : sq \in {t \in SeqsUpTo(S, n - 1) : Len(t) = n - 1}, e \in S }

PolyCalls == { [fn |-> "poly_to_points", poly |-> sq] : sq \in SeqsUpTo(PolyElems, MaxPolyLen) }

\* pieces in every pose
Poses == { [rotation |-> rt, flip |-> fl] :
             rt \in {None, Some(0), Some(90 * 60), Some(30 * 60)},
             fl \in {None, Some(FALSE), Some(TRUE)} }

PosedPieces ==
    { [p EXCEPT !.rotation = ps.rotation, !.flip = ps.flip] :
        ps \in Poses,
        p \in { [RectPiece(10 * Tick, 10 * Tick, w, 10 * Tick) EXCEPT !.anchor = an] :
                   w \in {20 * Tick, 30 * Tick},
                   an \in {None, Some("bottomleft"), Some("center")} }
              \cup { [NoPiece EXCEPT !.type_ = "polygon", !.points = Some(pts)] :
                       pts \in {o \in Outlines : Len(o) >= 3} }
              \cup { CirclePiece(10 * Tick, 10 * Tick, d * Tick) : d \in {10, 30, 64, 120, 200} }
              \cup { [NoPiece EXCEPT !.type_ = "circle", !.at = Some(<<0, 0>>),
                                     !.r = Some(20 * Tick)] } }

PieceCalls == { [fn |-> "piece_geom", piece |-> p] : p \in PosedPieces }

GeomCalls == BoardCalls \cup PolygonBoardCalls \cup OffsetCalls \cup PolyCalls \cup PieceCalls

InitGeom ==
    /\ call \in GeomCalls
    /\ ret = None
    /\ initial_data = NoPuzzle
    /\ data = NoPuzzle
    /\ dragging_idx = None
    /\ drag_off = <<0, 0>>
    /\ rot_vel = 0
    /\ slow_mode = FALSE
    /\ rot_speed_fast = ROT_SPEED_FAST
    /\ rot_speed_slow = ROT_SPEED_SLOW
    /\ restrict_mode = FALSE
    /\ shift_down = FALSE
    /\ frames = 0
    /\ label_map = NoLabels
    /\ trapped = FALSE

Returns(fn, value) ==
    /\ call.fn = fn
    /\ ret = None
    /\ ret' = Some(value)
    /\ UNCHANGED <<trapped, label_map, data, initial_data, dragging_idx, drag_off, rot_vel, slow_mode,
                   rot_speed_fast, rot_speed_slow, restrict_mode, shift_down, frames, call>>

\* the inner and the outer outline of a board
BoardOutlines ==
    /\ call.fn = "board_outer_geom"
    /\ Returns("board_outer_geom",
               [inner |-> board_to_geom(call.board),
                outer |-> board_outer_geom(call.board, call.ring)])

OffsetRounded ==
    /\ call.fn = "polygon_offset_rounded"
    /\ Returns("polygon_offset_rounded",
               polygon_offset_rounded_f64(call.inner, call.r, call.arc_samples))

PolyToPoints ==
    /\ call.fn = "poly_to_points"
    /\ Returns("poly_to_points", poly_to_points(call.poly))

\* the outline and centre of a piece, in the application and in the
\* blueprint generator
PieceOutlines ==
    /\ call.fn = "piece_geom"
    /\ Returns("piece_geom",
               [wasm |-> piece_geom(call.piece), blueprint |-> blueprint_piece_geom(call.piece)])

NextGeom ==
    \/ BoardOutlines
    \/ OffsetRounded
    \/ PolyToPoints
    \/ PieceOutlines

SpecGeom == InitGeom /\ [][NextGeom]_vars

\* C13: for a rectangle board with a quarter-round corner the outer outline
\* at ring width 0 is the inner outline, point for point.
C13_ZeroRingOuterIsInner ==
    (/\ ret # None
     /\ call.fn = "board_outer_geom"
     /\ call.board.type_ = Some("rect_with_quarter_round_cut")
     /\ call.ring = 0)
        => ret[1].outer = ret[1].inner

\* C14: the rounded offset of a polygon of fewer than 3 points, or by a
\* radius that is zero, NaN or infinite, is the input outline, and the outer
\* outline of such a polygon board is that outline.
C14_DegenerateOffsetUnchanged ==
    /\ (/\ ret # None
        /\ call.fn = "polygon_offset_rounded"
        /\ (Len(call.inner) < 3 \/ call.r.kind # "finite" \/ call.r.v = 0))
           => (ret[1].finite /\ ret[1].pts = call.inner)
    /\ (/\ ret # None
        /\ call.fn = "board_outer_geom"
        /\ call.board.type_ = Some("polygon")
        /\ (Len(call.board.points[1]) < 3 \/ call.ring = 0))
           => ret[1].outer = Some(call.board.points[1])

OffsetOfPolygon ==
    /\ ret # None
    /\ call.fn = "polygon_offset_rounded"
    /\ Len(call.inner) >= 3
    /\ call.r.kind = "finite" /\ call.r.v > 0

\* C15, as the code has it: a polygon of n >= 3 vertices offset by a positive
\* finite radius comes back with n * (max(arc_samples, 1) + 2) points.
C15_OffsetPointCountAtLeastOneStep ==
    OffsetOfPolygon => ret[1].len = Len(call.inner) * (Max2(call.arc_samples, 1) + 2)

\* a polygon was offset with arc_samples = 0 and came back with 3 points
\* for each vertex
C15_OffsetWithoutSamples ==
    /\ OffsetOfPolygon
    /\ call.arc_samples = 0
    /\ ret[1].finite /\ Len(ret[1].pts) = 3 * Len(call.inner)

\* C15, as stated: the offset outline has n * (arc_samples + 2) points for
\* every arc_samples.
C15_OffsetPointCount ==
    OffsetOfPolygon => ret[1].len = Len(call.inner) * (call.arc_samples + 2)

PieceCall(type_) == ret # None /\ call.fn = "piece_geom" /\ call.piece.type_ = type_

Unposed(p) == piece_rotation(p) = 0 /\ ~piece_flip(p)

VertexAverage(pts) ==
    Pt(DivR(SumX(pts, Len(pts)), Len(pts)), DivR(SumY(pts, Len(pts)), Len(pts)))

\* C16: the outline of a polygon piece of plain points is the input points
\* at rotation 0 without flip and the input points turned about their
\* average in every other pose, in the application and in the blueprint
\* generator, and poly_to_points returns a list of plain points as it is.
C16_PlainPolygonOutline ==
    /\ PieceCall("polygon") =>
          LET p == call.piece
              pts == p.points[1]
              expected == IF Unposed(p) THEN pts
                          ELSE [i \in Range(Len(pts)) |->
                                  rotate_point(pts[i], VertexAverage(pts),
                                               piece_rotation(p), piece_flip(p))]
          IN  ret[1].wasm[1] = expected /\ ret[1].blueprint[1] = expected
    /\ (/\ ret # None
        /\ call.fn = "poly_to_points"
        /\ \A i \in Range(Len(call.poly)) : Len(call.poly[i]) = 2)
           => ret[1] = call.poly

PolyCall == ret # None /\ call.fn = "poly_to_points"

IsMarker(poly, i) == Len(poly[i]) = 3

\* a marker with a point emitted before it and a vertex after it
HasNeighbours(poly, i) ==
    /\ IsMarker(poly, i)
    /\ \E k \in 1 .. i - 1 : ~IsMarker(poly, k)
    /\ i < Len(poly)

\* how many points the elements before poly[i] account for
RECURSIVE EmittedBefore(_, _)
EmittedBefore(poly, i) ==
    IF i <= 1 THEN 0
    ELSE EmittedBefore(poly, i - 1)
         + (IF ~IsMarker(poly, i - 1) THEN 1
            ELSE IF HasNeighbours(poly, i - 1) THEN 25 ELSE 0)

\* the distance of p from c is rad, to within a tick
AtDistance(p, c, rad) ==
    Abs(ISqrt(16 * ((p[1] - c[1]) * (p[1] - c[1]) + (p[2] - c[2]) * (p[2] - c[2]))) - 4 * rad) <= 4

\* C17: poly_to_points returns (it terminates); a marker without a point
\* emitted before it or without a vertex after it adds nothing, every other
\* marker adds its tangent start point, at the radius from the corner
\* towards the point before it (when that point is not the corner itself),
\* and 24 arc points; every plain point appears once, in input order.
C17_MarkersExpandedOrSkipped ==
    PolyCall =>
        LET poly == call.poly
            out == ret[1]
        IN  /\ Len(out) = EmittedBefore(poly, Len(poly) + 1)
            /\ \A i \in Range(Len(poly)) :
                   LET k == EmittedBefore(poly, i)
                   IN  IF ~IsMarker(poly, i) THEN out[k + 1] = Pt(poly[i][1], poly[i][2])
                       ELSE (HasNeighbours(poly, i) /\ out[k] # Pt(poly[i][1], poly[i][2])) =>
                                AtDistance(out[k + 1], Pt(poly[i][1], poly[i][2]), poly[i][3])

\* a plain point, a marker between two vertices and a marker at the end of
\* the list: 1 + 25 + 0 points
C17_ExpandedThenSkipped ==
    /\ PolyCall
    /\ Len(call.poly) = 3
    /\ ~IsMarker(call.poly, 1) /\ IsMarker(call.poly, 2) /\ IsMarker(call.poly, 3)
    /\ Len(ret[1]) = 26

\* an angle difference brought into -180 .. 180 degrees
NormAngle(d) == ((d + FullTurn \div 2) % FullTurn) - FullTurn \div 2

AngleAbout(p, c) == ATan2Fx(p[2] - c[2], p[1] - c[1])

\* the angle swept from the first to the j-th arc sample of the marker whose
\* start point is out[k], summed sample by sample
RECURSIVE SweptTo(_, _, _, _)
SweptTo(out, k, c, j) ==
    IF j <= 1 THEN 0
    ELSE SweptTo(out, k, c, j - 1)
         + NormAngle(AngleAbout(out[k + j], c) - AngleAbout(out[k + j - 1], c))

\* C18: the arc samples of every expanded marker sweep at most 180 degrees
\* about the centre of the arc, from the first sample to the last.
C18_ArcSweepsShorterWay ==
    PolyCall =>
        \A i \in Range(Len(call.poly)) :
            HasNeighbours(call.poly, i) =>
                LET k == EmittedBefore(call.poly, i)
                    c == RoundingCenter(ret[1][k], Pt(call.poly[i][1], call.poly[i][2]),
                                        Pt(call.poly[i + 1][1], call.poly[i + 1][2]),
                                        call.poly[i][3])
                IN  Abs(SweptTo(ret[1], k + 1, c, 24)) <= FullTurn \div 2

\* C19: a rect piece at rotation 0 without flip has the outline bottom-left,
\* bottom-right, top-right, top-left and the centre (x + w/2, y + h/2), where
\* (x, y) is at for the anchor bottom-left and at - (w/2, h/2) for the anchor
\* center, whose centre is therefore at.
C19_RectCornersAndCentre ==
    (PieceCall("rect") /\ Unposed(call.piece)) =>
        LET p == call.piece
            w == p.w[1]
            h == p.h[1]
            centred == p.anchor = Some("center")
            x == IF centred THEN p.at[1][1] - w \div 2 ELSE p.at[1][1]
            y == IF centred THEN p.at[1][2] - h \div 2 ELSE p.at[1][2]
            expected == << << Pt(x, y), Pt(x + w, y), Pt(x + w, y + h), Pt(x, y + h) >>,
                           Pt(x + w \div 2, y + h \div 2) >>
        IN  /\ ret[1].wasm = expected
            /\ ret[1].blueprint = expected
            /\ centred => ret[1].wasm[2] = p.at[1]

\* a rect anchored at its centre, at rotation 0 without flip, has its outline
C19_CentredRectOutlined ==
    /\ PieceCall("rect") /\ Unposed(call.piece)
    /\ call.piece.anchor = Some("center")
    /\ call.piece.rotation = Some(0)
    /\ Len(ret[1].wasm[1]) = 4

\* C20: the outline of a circle piece of positive radius has 32 vertices,
\* each at the radius from the centre at.
C20_CircleHas32Vertices ==
    (PieceCall("circle") /\ CircleRadius(call.piece) > 0) =>
        \A o \in {ret[1].wasm, ret[1].blueprint} :
            /\ Len(o[1]) = 32
            /\ \A i \in Range(Len(o[1])) :
                   AtDistance(o[1][i], call.piece.at[1], CircleRadius(call.piece))

(***************************************************************************)
(* The blueprint of blueprint-core (lib.rs:705-822)                        *)
(*                                                                         *)
(* A blueprint piece is a piece record with the id of lib.rs:65-87 beside  *)
(* it.  A HashMap<String, String> is a function from its keys.  The        *)
(* iteration order of a std HashMap is not specified: counts.iter() is     *)
(* modelled as any order of the keys.                                      *)
(***************************************************************************)
BpPiece(id, shape) == [id |-> id, shape |-> shape]

\* group_key_for_piece: the id when there is one, else a signature of the
\* type and its parameters; a format string is modelled as the tuple of
\* the values it prints.
group_key_for_piece(p) ==
    LET s == p.shape
        v(o) == UnwrapOr(o, 0)
    IN  IF IsSome(p.id) THEN <<p.id[1]>>
        ELSE CASE s.type_ = "rect" -> <<"rect", v(s.w), v(s.h)>>
               [] s.type_ = "equilateral_triangle" -> <<"equilateral_triangle", v(s.side)>>
               [] s.type_ = "right_triangle" -> <<"right_triangle", v(s.a), v(s.b)>>
               [] s.type_ = "regular_polygon" -> <<"regular_polygon", v(s.n), v(s.side)>>
               [] s.type_ = "circle" -> <<"circle", v(s.d), v(s.r)>>
               [] s.type_ = "isosceles_trapezoid" ->
                      <<"isosceles_trapezoid", v(s.base_bottom), v(s.base_top), v(s.height)>>
               [] s.type_ = "parallelogram" ->
                      <<"parallelogram", v(s.base), v(s.offset_top), v(s.height)>>
               [] s.type_ = "polygon" -> <<"polygon">>
               [] OTHER -> <<s.type_>>

label_from_catalog_only(p, labels) ==
    IF IsSome(p.id) /\ p.id[1] \in DOMAIN labels THEN labels[p.id[1]] ELSE ""

\* the position of the group of a key, 0 when there is none (index.get)
GroupIndex(groups, key) ==
    LET hits == {i \in Range(Len(groups)) : groups[i].key = key}
    IN  IF hits = {} THEN 0 ELSE CHOOSE i \in hits : TRUE

\* one turn of the grouping loop (lib.rs:803-822): the piece flat[i] joins
\* the group of its key, or opens one; a piece without outline is skipped
GroupStep(groups, flat, i, labels) ==
    LET pc == flat[i]
        g == blueprint_piece_geom(pc.shape)[1]
        key == group_key_for_piece(pc)
        at == GroupIndex(groups, key)
    IN  IF g = <<>> THEN groups
        ELSE IF at # 0 THEN [groups EXCEPT ![at].items = Append(@, i)]
        ELSE Append(groups, [key |-> key,
                             label |-> label_from_catalog_only(pc, labels),
                             items |-> <<i>>])

RECURSIVE GroupsFrom(_, _, _, _)
GroupsFrom(groups, flat, i, labels) ==
    IF i > Len(flat) THEN groups
    ELSE GroupsFrom(GroupStep(groups, flat, i, labels), flat, i + 1, labels)

\* n copies of v
Copies(v, n) == [k \in Range(n) |-> v]

RECURSIVE Concat(_)
Concat(seqs) == IF seqs = <<>> THEN <<>> ELSE Head(seqs) \o Concat(Tail(seqs))

\* the pieces of the parts of a spec (lib.rs:722-744)
PartsPieces(parts) ==
    Concat([k \in Range(Len(parts)) |-> Copies(BpPiece(None, parts[k].shape), parts[k].count)])

\* the shape of the catalog with an id, if any (by_id.get)
ById(catalog, id) ==
    LET hits == {k \in Range(Len(catalog)) : catalog[k].id = id}
    IN  IF hits = {} THEN None ELSE Some(catalog[SetMax(hits)])

\* the pieces of the counts of a spec, the keys taken in the order given
\* (lib.rs:767-789)
CountsPieces(counts, order, catalog) ==
    Concat([k \in Range(Len(order)) |->
               LET sd == ById(catalog, order[k])
               IN  IF IsSome(sd)
                   THEN Copies(BpPiece(Some(sd[1].id), sd[1].shape), counts[order[k]])
                   ELSE <<>>])

\* LANGUAGE (lib.rs:10-12) keeps its initial value "en"
is_en == TRUE

\* the labels read from the catalog (lib.rs:753-766)
CatalogLabels(catalog) ==
    LET chosen(sd) == IF is_en THEN sd.label_en
                      ELSE IF IsSome(sd.label_zh) THEN sd.label_zh ELSE sd.label
        ids == {catalog[k].id : k \in {j \in Range(Len(catalog)) : IsSome(chosen(catalog[j]))}}
    IN  [id \in ids |-> chosen(ById(catalog, id)[1])[1]]

\* the LABEL_MAP a build leaves (lib.rs:790): the labels of the catalog
\* replace the whole map
LabelsAfterCounts(labels, catalog) == CatalogLabels(catalog)

\* build_blueprint_svg up to the groups (lib.rs:705-822): the pieces it
\* lays out, the groups in the order of the rows, and the LABEL_MAP it leaves
build_blueprint_svg(p, order, catalog, labels) ==
    LET from_counts == p.parts = None /\ IsSome(p.counts)
        flat == IF IsSome(p.parts) THEN PartsPieces(p.parts[1])
                ELSE IF IsSome(p.counts) THEN CountsPieces(p.counts[1], order, catalog)
                ELSE IF IsSome(p.pieces) THEN p.pieces[1]
                ELSE <<>>
        after == IF from_counts THEN LabelsAfterCounts(labels, catalog) ELSE labels
    IN  [flat |-> flat, groups |-> GroupsFrom(<<>>, flat, 1, after), labels |-> after]

(***************************************************************************)
(* Calls of the blueprint: set_label_map and build_blueprint_svg           *)
(***************************************************************************)
NoSpec == [pieces |-> None, parts |-> None, counts |-> None]

ShapeDef(id, shape, label_en) ==
    [id |-> id, shape |-> shape, label |-> Some(id), label_en |-> label_en, label_zh |-> None]

FreePolygon(pts) == [NoPiece EXCEPT !.type_ = "polygon", !.points = Some(pts)]

\* the shape catalog of the calls
Catalog ==
    << ShapeDef("sq", [NoPiece EXCEPT !.type_ = "rect", !.w = Some(200), !.h = Some(200)],
                Some("Square")),
       ShapeDef("dot", [NoPiece EXCEPT !.type_ = "circle", !.d = Some(600)], Some("Circle")),
       ShapeDef("bar", [NoPiece EXCEPT !.type_ = "rect", !.w = Some(400), !.h = Some(100)],
                None),
       ShapeDef("tri", FreePolygon(<<Pt(200, 200), Pt(800, 200), Pt(200, 800)>>),
                Some("Triangle")) >>

\* the pieces a spec lists
BpPool ==
    { BpPiece(None, FreePolygon(<<Pt(0, 0), Pt(200, 0), Pt(0, 200)>>)),
      BpPiece(None, FreePolygon(<<Pt(0, 0), Pt(400, 0), Pt(400, 400), Pt(0, 400)>>)),
      BpPiece(None, [NoPiece EXCEPT !.type_ = "circle", !.d = Some(600)]),
      BpPiece(None, [NoPiece EXCEPT !.type_ = "circle", !.r = Some(300)]),
      BpPiece(None, [NoPiece EXCEPT !.type_ = "rect", !.w = Some(200), !.h = Some(200)]),
      BpPiece(Some("sq"), [NoPiece EXCEPT !.type_ = "rect", !.w = Some(200), !.h = Some(200)]),
      BpPiece(Some("dot"), [NoPiece EXCEPT !.type_ = "circle", !.d = Some(600)]),
      BpPiece(None, [NoPiece EXCEPT !.type_ = "hexagon"]) }

\* how many pieces a spec lists at most
MaxListed == 2

CountsMaps ==
    { [id \in {"sq", "dot"} |-> IF id = "sq" THEN 2 ELSE 1],
      [id \in {"bar", "ghost"} |-> 1],
      [id \in {"dot"} |-> 2] }

BlueprintSpecs ==
    {[NoSpec EXCEPT !.pieces = Some(ps)] : ps \in SeqsUpTo(BpPool, MaxListed)}
        \cup {[NoSpec EXCEPT !.counts = Some(c)] : c \in CountsMaps}
        \cup {[NoSpec EXCEPT !.parts = Some(<<[shape |-> Catalog[1].shape, count |-> 2]>>),
                             !.counts = Some(c)] : c \in CountsMaps}

\* the label maps a caller sets
CallerLabels ==
    { NoLabels,
      [id \in {"sq", "mine"} |-> IF id = "sq" THEN "Tile" ELSE "Mine"],
      [id \in {"bar"} |-> "Bar"] }

\* the orders of the keys of a map
Orders(S) == {o \in SeqsUpTo(S, Cardinality(S)) :
                 Len(o) = Cardinality(S) /\ \A i, j \in Range(Len(o)) : i # j => o[i] # o[j]}

InitBlueprint ==
    /\ data = NoPuzzle
    /\ initial_data = NoPuzzle
    /\ dragging_idx = None
    /\ drag_off = <<0, 0>>
    /\ rot_vel = 0
    /\ slow_mode = FALSE
    /\ rot_speed_fast = ROT_SPEED_FAST
    /\ rot_speed_slow = ROT_SPEED_SLOW
    /\ restrict_mode = FALSE
    /\ shift_down = FALSE
    /\ frames = 0
    /\ label_map = NoLabels
    /\ trapped = FALSE
    /\ call = None
    /\ ret = None

\* set_label_map (lib.rs:27-35)
SetLabelMap(m) ==
    /\ label_map' = m
    /\ call' = Some([fn |-> "set_label_map", map |-> m])
    /\ ret' = None
    /\ UNCHANGED <<trapped, data, initial_data, dragging_idx, drag_off, rot_vel, slow_mode,
                   rot_speed_fast, rot_speed_slow, restrict_mode, shift_down, frames>>

\* build_blueprint_svg of a spec with the catalog, in a run whose HashMap
\* gives the keys of counts in some order
BuildBlueprint(p) ==
    /\ \E order \in Orders(IF IsSome(p.counts) THEN DOMAIN p.counts[1] ELSE {}) :
           \E built \in {build_blueprint_svg(p, order, Catalog, label_map)} :
               /\ label_map' = built.labels
               /\ call' = Some([fn |-> "build_blueprint_svg", spec |-> p, before |-> label_map])
               /\ ret' = Some([flat |-> built.flat, groups |-> built.groups])
    /\ UNCHANGED <<trapped, data, initial_data, dragging_idx, drag_off, rot_vel, slow_mode,
                   rot_speed_fast, rot_speed_slow, restrict_mode, shift_down, frames>>

NextBlueprint ==
    \/ \E m \in CallerLabels : SetLabelMap(m)
    \/ \E p \in BlueprintSpecs : BuildBlueprint(p)

SpecBlueprint == InitBlueprint /\ [][NextBlueprint]_vars

\* build_blueprint_svg has returned
Built == IsSome(call) /\ call[1].fn = "build_blueprint_svg" /\ IsSome(ret)

HasOutline(p) == blueprint_piece_geom(p.shape)[1] # <<>>

InSameGroup(groups, i, j) ==
    \E g \in Range(Len(groups)) :
        /\ \E k \in Range(Len(groups[g].items)) : groups[g].items[k] = i
        /\ \E k \in Range(Len(groups[g].items)) : groups[g].items[k] = j

\* the same kind with the same shape parameters: the same points for free
\* polygons, the same size for circles
SameShape(s, t) ==
    /\ s.type_ = t.type_
    /\ CASE s.type_ = "polygon" -> s.points = t.points
         [] s.type_ = "circle" -> CircleRadius(s) = CircleRadius(t)
         [] OTHER -> s = t

RECURSIVE ItemCount(_, _)
ItemCount(groups, g) == IF g = 0 THEN 0 ELSE Len(groups[g].items) + ItemCount(groups, g - 1)

\* C21: the blueprint groups pieces by identity.  Two pieces with an id are
\* in one group exactly when the ids are equal; two pieces without id are
\* in one group exactly when they have the same kind and shape parameters;
\* the counts of the groups add up to the number of pieces with an outline.
C21_GroupedByIdentity ==
    Built =>
        LET flat == ret[1].flat
            groups == ret[1].groups
            shown == {i \in Range(Len(flat)) : HasOutline(flat[i])}
        IN  /\ \A i, j \in shown :
                   /\ (IsSome(flat[i].id) /\ IsSome(flat[j].id)) =>
                          (InSameGroup(groups, i, j) <=> flat[i].id = flat[j].id)
                   /\ (flat[i].id = None /\ flat[j].id = None) =>
                          (InSameGroup(groups, i, j) <=> SameShape(flat[i].shape, flat[j].shape))
            /\ ItemCount(groups, Len(groups)) = Cardinality(shown)

\* C21, the part that holds: pieces with an id are grouped by it, and the
\* counts add up to the number of pieces with an outline.
C21_IdsGroupedAndCounted ==
    Built =>
        LET flat == ret[1].flat
            groups == ret[1].groups
            shown == {i \in Range(Len(flat)) : HasOutline(flat[i])}
        IN  /\ \A i, j \in shown :
                   (IsSome(flat[i].id) /\ IsSome(flat[j].id)) =>
                       (InSameGroup(groups, i, j) <=> flat[i].id = flat[j].id)
            /\ ItemCount(groups, Len(groups)) = Cardinality(shown)

\* the ids of the shapes of the catalog
CatalogIds == {Catalog[k].id : k \in Range(Len(Catalog))}

\* C23: build_blueprint_svg does not clear the labels of the caller.  Every
\* id of the map set before the build is still in the map after it, a group
\* of such an id is labelled from the map when no counts are expanded, and
\* with counts only the entries of the ids of the catalog are overwritten.
C23_CallerLabelsKept ==
    Built =>
        LET before == call[1].before
            p == call[1].spec
            flat == ret[1].flat
            groups == ret[1].groups
        IN  /\ \A id \in DOMAIN before :
                   /\ id \in DOMAIN label_map
                   /\ id \notin CatalogIds => label_map[id] = before[id]
            /\ (p.counts = None \/ IsSome(p.parts)) =>
                   /\ label_map = before
                   /\ \A g \in Range(Len(groups)) :
                          LET first == flat[groups[g].items[1]]
                          IN  (IsSome(first.id) /\ first.id[1] \in DOMAIN before) =>
                                  groups[g].label = before[first.id[1]]

\* C23, the part that holds: a build that expands no counts leaves the
\* label map as the caller set it and labels the groups from it.
C23_LabelsKeptWithoutCounts ==
    (Built /\ (call[1].spec.counts = None \/ IsSome(call[1].spec.parts))) =>
        label_map = call[1].before

\* the order of the pieces and of the groups of a build
BuildOrder(r) ==
    [pieces |-> [i \in Range(Len(r.flat)) |-> group_key_for_piece(r.flat[i])],
     groups |-> [g \in Range(Len(r.groups)) |-> r.groups[g].key]]

\* C24: the blueprint is deterministic.  Two builds of the same spec with
\* the same catalog give the pieces and the groups in the same order.
C24_SameSpecSameOrder ==
    [][(/\ Built
        /\ IsSome(call') /\ call'[1].fn = "build_blueprint_svg" /\ IsSome(ret')
        /\ call'[1].spec = call[1].spec)
           => BuildOrder(ret'[1]) = BuildOrder(ret[1])]_vars

(***************************************************************************)
(* Validation of layouts with a malformed piece (lib.rs:237-422, 632-852)  *)
(***************************************************************************)
\* pieces of an unknown type or without their parameters
MalformedPieces ==
    { [NoPiece EXCEPT !.type_ = "hexagon", !.at = Some(at)] : at \in {Pt(0, 0), Pt(15 * Tick, 15 * Tick)} }
    \cup { [NoPiece EXCEPT !.type_ = t, !.at = Some(at)] :
               t \in {"polygon", "rect", "regular_polygon", "right_triangle"},
               at \in {Pt(-5 * Tick, 15 * Tick), Pt(15 * Tick, 15 * Tick)} }

\* the pieces beside the malformed one
WellFormedPieces ==
    { RectPiece(10 * Tick, 10 * Tick, 10 * Tick, 10 * Tick),
      RectPiece(-5 * Tick, 10 * Tick, 10 * Tick, 10 * Tick),
      CirclePiece(15 * Tick, 15 * Tick, 10 * Tick) }

MalformedLayouts ==
    { << m >> : m \in MalformedPieces }
    \cup { << m, p >> : m \in MalformedPieces, p \in WellFormedPieces }
    \cup { << p, m >> : m \in MalformedPieces, p \in WellFormedPieces }

InitMalformed ==
    /\ \E b \in {None, Some(RectBoard(200 * Tick, 150 * Tick)),
                 Some(CutBoard(60 * Tick, 40 * Tick, 0, Some("none")))} :
          \E ps \in MalformedLayouts :
              /\ initial_data = assign_piece_colors([board |-> b, pieces |-> ps])
              /\ data = assign_piece_colors([board |-> b, pieces |-> ps])
    /\ call = <<>>
    /\ ret = None
    /\ dragging_idx = None
    /\ drag_off = <<0, 0>>
    /\ rot_vel = 0
    /\ slow_mode = FALSE
    /\ rot_speed_fast = ROT_SPEED_FAST
    /\ rot_speed_slow = ROT_SPEED_SLOW
    /\ restrict_mode = FALSE
    /\ shift_down = FALSE
    /\ frames = 0
    /\ label_map = NoLabels
    /\ trapped = FALSE

SpecMalformed == InitMalformed /\ [][DrawAndValidate]_vars

\* C22: a piece of an unknown type or without its parameters raises no
\* error.  Its outline is empty or has no area, and the validation of a
\* layout with a piece of empty outline ends without a message for it.
C22_MalformedPieceIgnored ==
    ret # None =>
        /\ \A i \in Range(Len(data.pieces)) :
               [data.pieces[i] EXCEPT !.geom = None, !.ctr = None, !.label_idx = None]
                       \in MalformedPieces
                   => polygon_area(data.pieces[i].geom[1]) = 0
        /\ \A i \in Range(Len(data.pieces)) :
               data.pieces[i].geom = Some(<<>>) =>
                   \A k \in DOMAIN ret[1] :
                       /\ ret[1][k].kind # "panic"
                       /\ ret[1][k].a # data.pieces[i].label_idx[1] + 1
                       /\ ret[1][k].b # data.pieces[i].label_idx[1] + 1

\* C25: validation tolerates touching and tiny overlaps.  Two squares that
\* touch, or overlap by a depth below the tolerance of 0.10 mm, get no
\* overlap message; two squares that overlap deeper than 0.10 mm get one.
C25_TinyOverlapTolerated ==
    (ret # None /\ TwoSquares(data)) =>
        /\ -SquareGap(data) < eps_mm => SelectSeq(ret[1], IsOverlap) = <<>>
        /\ -SquareGap(data) > eps_mm => Len(SelectSeq(ret[1], IsOverlap)) = 1

(***************************************************************************)
(* Loading a puzzle (upload.rs:15-93, lib.rs:2198-2278, 2361-2413) and the *)
(* speed controls (lib.rs:1679-1825), with the handlers of the UI          *)
(*                                                                         *)
(* A text is its length and, when it is JSON, the keys of its object that  *)
(* the parsers read.  A completed load is one step: the fetches before it  *)
(* touch no state.                                                         *)
(***************************************************************************)
NoJson == [counts |-> None, pieces |-> None, board |-> None]

\* serde_json::from_str::<CountsSpec>: the key counts is required
ParseCountsSpec(text) ==
    IF IsSome(text.json) /\ IsSome(text.json[1].counts)
    THEN Some([board |-> text.json[1].board, counts |-> text.json[1].counts[1]])
    ELSE None

\* serde_json::from_str::<Puzzle>: the key pieces is required
ParsePuzzle(text) ==
    IF IsSome(text.json) /\ IsSome(text.json[1].pieces)
    THEN Some([board |-> text.json[1].board, pieces |-> text.json[1].pieces[1]])
    ELSE None

\* the initial placement of build_puzzle_from_counts (lib.rs:2244-2269): a
\* grid with a margin of 10 mm and a gap of 5 mm, for pieces with an outline
RECURSIVE PlaceFrom(_, _, _, _, _, _)
PlaceFrom(pieces, i, x, y, row_h, maxw) ==
    IF i > Len(pieces) THEN pieces
    ELSE LET p == pieces[i]
             bb == BoundsOf(piece_geom(p)[1])
             w == bb[3] - bb[1]
             h == bb[4] - bb[2]
             wrap == x + w > maxw
             x1 == IF wrap THEN 10 * Tick ELSE x
             y1 == IF wrap THEN y + row_h + 5 * Tick ELSE y
             rh1 == IF wrap THEN 0 ELSE row_h
             placed == IF p.type_ \in {"circle", "regular_polygon"}
                       THEN [p EXCEPT !.anchor = Some("center"),
                                      !.at = Some(Pt(x1 + DivR(w, 2), y1 + DivR(h, 2)))]
                       ELSE [p EXCEPT !.anchor = Some("bottomleft"), !.at = Some(Pt(x1, y1))]
         IN  PlaceFrom([pieces EXCEPT ![i] = placed], i + 1, x1 + w + 5 * Tick, y1,
                       Max2(rh1, h), maxw)

\* build_puzzle_from_counts (lib.rs:2198-2278), the keys of counts taken in
\* the order given
build_puzzle_from_counts(spec, order, catalog) ==
    LET listed == CountsPieces(spec.counts, order, catalog)
        pieces == [k \in Range(Len(listed)) |-> listed[k].shape]
        bw == IF IsSome(spec.board) THEN UnwrapOr(spec.board[1].w, 200 * Tick) ELSE 200 * Tick
    IN  [board |-> spec.board,
         pieces |-> PlaceFrom(pieces, 1, 10 * Tick, 10 * Tick, 0, bw - 10 * Tick)]

\* a variant of the load that empties the puzzle when the text is refused
LoadedOrEmptied(d, text, shapes, order) ==
    LET spec == ParseCountsSpec(text)
        full == ParsePuzzle(text)
    IN  IF text.chars # 0 /\ IsSome(spec) /\ IsSome(shapes)
        THEN Some(assign_piece_colors(build_puzzle_from_counts(spec[1], order, shapes[1])))
        ELSE IF text.chars # 0 /\ spec = None /\ IsSome(full)
        THEN Some(assign_piece_colors(full[1]))
        ELSE Some(NoPuzzle)

\* load_puzzle_from_text (upload.rs:15-85): the puzzle of a text with its
\* labels, None when the text or the catalog is refused
Loaded(d, text, shapes, order) ==
    LET spec == ParseCountsSpec(text)
        full == ParsePuzzle(text)
    IN  IF text.chars = 0 THEN None
        ELSE IF IsSome(spec)
             THEN (IF IsSome(shapes)
                   THEN Some(assign_piece_colors(build_puzzle_from_counts(spec[1], order, shapes[1])))
                   ELSE None)
        ELSE IF IsSome(full) THEN Some(assign_piece_colors(full[1]))
        ELSE None

\* the puzzle the application starts with: a square under the first mouse
\* point and a square out of reach
StartLoadPuzzle ==
    [board |-> None,
     pieces |-> << RectPiece(50 * Tick, 50 * Tick, 10 * Tick, 10 * Tick),
                   RectPiece(10 * Tick, 10 * Tick, 10 * Tick, 10 * Tick) >>]

\* the texts of the loads: an empty one, one that is no JSON, an object with
\* neither counts nor pieces, counts of one square, a full puzzle without
\* pieces, and a full puzzle of one free polygon without at
LoadTexts ==
    { [chars |-> 0, json |-> None],
      [chars |-> 7, json |-> None],
      [chars |-> 2, json |-> Some(NoJson)],
      [chars |-> 20, json |-> Some([NoJson EXCEPT !.counts = Some([id \in {"sq"} |-> 1])])],
      [chars |-> 14, json |-> Some([NoJson EXCEPT !.pieces = Some(<<>>)])],
      [chars |-> 60, json |-> Some([NoJson EXCEPT !.pieces =
          Some(<< FreePolygon(<<Pt(200, 200), Pt(400, 200), Pt(400, 400), Pt(200, 400)>>) >>)])] }

\* the shapes text fetched for a counts spec: the catalog, or one that does
\* not parse
ShapesTexts == {Some(Catalog), None}

InitLoad ==
    /\ initial_data = assign_piece_colors(StartLoadPuzzle)
    /\ data = draw(assign_piece_colors(StartLoadPuzzle))
    /\ dragging_idx = None
    /\ drag_off = <<0, 0>>
    /\ rot_vel = 0
    /\ slow_mode = FALSE
    /\ rot_speed_fast = ROT_SPEED_FAST
    /\ rot_speed_slow = ROT_SPEED_SLOW
    /\ restrict_mode = FALSE
    /\ shift_down = FALSE
    /\ frames = 0
    /\ label_map = NoLabels
    /\ trapped = FALSE
    /\ call = <<>>
    /\ ret = None

\* a load completes (upload.rs:62-85, lib.rs:2397-2411): data is replaced,
\* labelled, copied to initial_data and drawn; a refused text changes nothing
Load(text, shapes) ==
    /\ ~trapped
    /\ \E order \in Orders(IF IsSome(ParseCountsSpec(text))
                           THEN DOMAIN ParseCountsSpec(text)[1].counts ELSE {}) :
           \E p \in {Loaded(data, text, shapes, order)} :
               IF IsSome(p)
               THEN /\ data' = draw(p[1])
                    /\ initial_data' = p[1]
               ELSE UNCHANGED <<data, initial_data>>
    /\ UNCHANGED <<trapped, label_map, call, ret, dragging_idx, drag_off, rot_vel, slow_mode,
                   rot_speed_fast, rot_speed_slow, restrict_mode, shift_down, frames>>

\* a variant of the input handlers that stores the value as typed
Unclamped(v) == v

\* clamp(1, 180) of the input handlers
Clamped(v) == Max2(1, Min2(v, 180))

\* the slider or the number field of the fast speed gets a value
\* (lib.rs:1712-1751); a value that does not parse changes nothing
FastSpeedInput(v) ==
    /\ ~trapped
    /\ IF IsSome(v)
       THEN /\ rot_speed_fast' = Clamped(v[1])
            /\ rot_vel' = IF rot_vel # 0 /\ ~slow_mode
                          THEN (IF rot_vel > 0 THEN Clamped(v[1]) ELSE -Clamped(v[1]))
                          ELSE rot_vel
       ELSE UNCHANGED <<rot_speed_fast, rot_vel>>
    /\ UNCHANGED <<trapped, label_map, call, ret, data, initial_data, dragging_idx, drag_off,
                   slow_mode, rot_speed_slow, restrict_mode, shift_down, frames>>

\* the slider or the number field of the slow speed gets a value
\* (lib.rs:1781-1820)
SlowSpeedInput(v) ==
    /\ ~trapped
    /\ IF IsSome(v)
       THEN /\ rot_speed_slow' = Clamped(v[1])
            /\ rot_vel' = IF rot_vel # 0 /\ slow_mode
                          THEN (IF rot_vel > 0 THEN Clamped(v[1]) ELSE -Clamped(v[1]))
                          ELSE rot_vel
       ELSE UNCHANGED <<rot_speed_slow, rot_vel>>
    /\ UNCHANGED <<trapped, label_map, call, ret, data, initial_data, dragging_idx, drag_off,
                   slow_mode, rot_speed_fast, restrict_mode, shift_down, frames>>

\* the values typed into the speed controls
SpeedInputs == {None, Some(0), Some(500)}

NextLoad ==
    \/ Next
    \/ \E text \in LoadTexts : \E shapes \in ShapesTexts : Load(text, shapes)

SpecLoad == InitLoad /\ [][NextLoad]_vars

\* the handlers that write the rotation speed, its mode or the velocity, with
\* the frames and the loads
NextSpeed ==
    \/ \E key \in {"q", "e"} : KeyDownRotate(key)
    \/ KeyDownSlow
    \/ KeyUpRotate
    \/ RotFrame
    \/ Reset
    \/ \E text \in LoadTexts : \E shapes \in ShapesTexts : Load(text, shapes)
    \/ \E v \in SpeedInputs : FastSpeedInput(v)
    \/ \E v \in SpeedInputs : SlowSpeedInput(v)

SpecSpeed == InitLoad /\ [][NextSpeed]_vars

\* the pieces of a puzzle without the outlines that draw caches
Uncached(d) == [i \in Range(Len(d.pieces)) |-> [d.pieces[i] EXCEPT !.geom = None, !.ctr = None]]

\* C26: in every state dragging_idx is None or the index of the last piece
\* of the current array, so no handler indexes the array out of bounds.
C26_DragIndexIsLastPiece ==
    /\ IsSome(dragging_idx) => dragging_idx[1] = Len(data.pieces)
    /\ ~trapped

\* the successful loads: the puzzles a text can give
LoadablePuzzles ==
    {q[1] : q \in {p \in {Loaded(data, text, shapes, <<"sq">>) :
                              text \in LoadTexts, shapes \in ShapesTexts} : IsSome(p)}}

\* C28: Reset puts the pieces back as the snapshot of the last load has
\* them (count, order, position, rotation, flip, labels), ends the drag and
\* the rotation and clears the three modes; no step but a load changes the
\* snapshot; a Reset right after a Reset changes nothing.
C28_ResetRestoresSnapshot ==
    [][/\ Reset =>
              /\ Uncached(data') = Uncached(initial_data)
              /\ dragging_idx' = None /\ rot_vel' = 0
              /\ ~slow_mode' /\ ~restrict_mode' /\ ~shift_down'
              /\ data' = draw(initial_data')
       /\ initial_data' # initial_data => initial_data' \in LoadablePuzzles
       /\ (Reset /\ data = draw(initial_data) /\ dragging_idx = None /\ rot_vel = 0
                 /\ ~slow_mode /\ ~restrict_mode /\ ~shift_down) => UNCHANGED vars]_vars

\* a piece was turned by a frame, and the layout is that of the snapshot
\* again, with the drag, the rotation and the modes off
C28_ResetAfterRotation ==
    /\ frames > 0
    /\ initial_data = assign_piece_colors(StartLoadPuzzle)
    /\ data = draw(initial_data)
    /\ dragging_idx = None /\ rot_vel = 0
    /\ ~slow_mode /\ ~restrict_mode /\ ~shift_down

\* the text or the catalog of a load is refused
LoadRefused(text, shapes) ==
    \/ text.chars = 0
    \/ text.json = None
    \/ text.json[1].counts = None /\ text.json[1].pieces = None
    \/ IsSome(text.json[1].counts) /\ shapes = None

\* C29: a load that fails changes neither data nor initial_data nor the
\* drag and mode fields; a load that succeeds replaces data, labels the
\* pieces 0..n-1 in the order of the array and makes initial_data the new
\* data.
C29_LoadAllOrNothing ==
    [][\A text \in LoadTexts : \A shapes \in ShapesTexts :
          Load(text, shapes) =>
              /\ LoadRefused(text, shapes) => UNCHANGED vars
              /\ ~LoadRefused(text, shapes) =>
                     /\ \A i \in Range(Len(data'.pieces)) : data'.pieces[i].label_idx = Some(i - 1)
                     /\ Uncached(data') = Uncached(initial_data')
                     /\ IsSome(text.json[1].pieces) /\ text.json[1].counts = None =>
                            Len(data'.pieces) = Len(text.json[1].pieces[1])
                     /\ UNCHANGED <<dragging_idx, drag_off, rot_vel, slow_mode, restrict_mode,
                                    shift_down>>]_vars

\* a full puzzle of one free polygon was loaded during a drag
C29_PolygonLoadedDuringDrag ==
    /\ Len(data.pieces) = 1
    /\ data.pieces[1].type_ = "polygon"
    /\ data.pieces[1].label_idx = Some(0)
    /\ Uncached(initial_data) = Uncached(data)
    /\ IsSome(dragging_idx)

\* C30: whenever the rotation runs, its speed is the speed of the current
\* mode, and both speeds are within 1..180.
C30_VelocityIsModeSpeed ==
    /\ rot_vel # 0 => Abs(rot_vel) = CurrentSpeed
    /\ rot_speed_fast \in 1 .. 180
    /\ rot_speed_slow \in 1 .. 180

\* a rotation runs in slow mode at a speed typed below the range
C30_SlowSpeedClampedWhileRotating ==
    /\ rot_vel = -1
    /\ slow_mode
    /\ rot_speed_slow = 1
    /\ rot_speed_fast = 180

(***************************************************************************)
(* One mousemove of a drag (lib.rs:1842-1914), for pieces of each kind     *)
(***************************************************************************)
\* the pieces to drag, each under the first mouse point: a rect, a rect
\* turned and flipped, a circle, a rect without at, a free polygon without
\* at, and a free polygon with at as build_puzzle_from_counts places it
DragPieces ==
    { RectPiece(10 * Tick, 10 * Tick, 10 * Tick, 10 * Tick),
      [RectPiece(10 * Tick, 10 * Tick, 10 * Tick, 10 * Tick)
           EXCEPT !.rotation = Some(30 * 60), !.flip = Some(TRUE)],
      [CirclePiece(15 * Tick, 15 * Tick, 10 * Tick) EXCEPT !.anchor = Some("center")],
      [NoPiece EXCEPT !.type_ = "rect", !.w = Some(20 * Tick), !.h = Some(20 * Tick)],
      FreePolygon(<<Pt(200, 200), Pt(400, 200), Pt(400, 400), Pt(200, 400)>>),
      PlaceFrom(<< FreePolygon(<<Pt(200, 200), Pt(800, 200), Pt(200, 800)>>) >>,
                1, 10 * Tick, 10 * Tick, 0, 190 * Tick)[1] }

\* where the mouse goes
DragPts == MousePts \cup { <<15 * Tick, 27 * Tick>> }

InitDrag ==
    /\ \E p \in DragPieces :
          LET d == [board |-> None,
                    pieces |-> << RectPiece(50 * Tick, 50 * Tick, 10 * Tick, 10 * Tick), p >>]
          IN  /\ initial_data = assign_piece_colors(d)
              /\ data = draw(assign_piece_colors(d))
    /\ dragging_idx = None
    /\ drag_off = <<0, 0>>
    /\ rot_vel = 0
    /\ slow_mode = FALSE
    /\ rot_speed_fast = ROT_SPEED_FAST
    /\ rot_speed_slow = ROT_SPEED_SLOW
    /\ restrict_mode = FALSE
    /\ shift_down = FALSE
    /\ frames = 0
    /\ label_map = NoLabels
    /\ trapped = FALSE
    /\ call = <<>>
    /\ ret = None

\* the first mousemove of a behaviour; call records where the mouse went
DragOnce(raw) ==
    /\ call = <<>>
    /\ MouseMoved(raw)
    /\ call' = << raw >>

NextDrag ==
    \/ \E pt \in MousePts : MouseDown(pt)
    \/ \E raw \in DragPts : DragOnce(raw)
    \/ MouseUp
    \/ KeyDownLock

SpecDrag == InitDrag /\ [][NextDrag]_vars

\* C27: a mousemove during a drag moves the dragged piece by the delta of
\* the solver and nothing else: its outline and centre are the previous
\* ones translated by the delta, whatever the kind of the piece, and the
\* other pieces are as they were.
C27_DragTranslatesOutline ==
    [][\A raw \in DragPts :
          (DragOnce(raw) /\ ~trapped') =>
              LET idx == dragging_idx[1]
                  p == data.pieces[idx]
                  want == Sub(Sub(raw, drag_off), p.ctr[1])
                  al == rapier_allowed_delta(data, idx, TickDelta(want[1], want[2]),
                                             restrict_mode \/ shift_down)
              IN  /\ data'.pieces[idx].geom = Some(MoveBy(p.geom[1], <<al.x, al.y>>))
                  /\ data'.pieces[idx].ctr = Some(Add(p.ctr[1], <<al.x, al.y>>))
                  /\ \A j \in Range(Len(data.pieces)) :
                         j # idx => data'.pieces[j] = data.pieces[j]]_vars

====
